---------------------------- MODULE Spec2Model ----------------------------
(***************************************************************************)
(* A model of dispersy's Community (src/community.py): the per-community   *)
(* global time, the acceptable global time, the sync bloom filter cache    *)
(* and the strategies that fill it.                                        *)
(*                                                                         *)
(* Conventions                                                             *)
(*  - Variables carry the names of the attributes of Community.            *)
(*  - Python's None is the record NoneValue where an object is expected    *)
(*    and the socket address 0 where a candidate is expected.              *)
(*  - A handler is one action.  `result' holds what the last handler       *)
(*    returned or the exception it raised.                                 *)
(*  - A bloom filter is modelled by its size in bits and the set of keys   *)
(*    that were added to it: contains(k) is TRUE for every added key.      *)
(*    False positives are not modelled.                                    *)
(***************************************************************************)
EXTENDS Integers, Sequences, FiniteSets, TLC

VARIABLES
    _global_time,                     \* Community._global_time
    calls,                            \* history: the claim/update calls made so far
    now,                              \* time()
    _acceptable_global_time_cache,    \* Community._acceptable_global_time_cache
    _acceptable_global_time_deadline, \* Community._acceptable_global_time_deadline
    candidates,                       \* Dispersy.candidates, as seen by this community
    _meta_messages,                   \* Community._meta_messages
    sync,                             \* rows of the sync table of this community
    _sync_cache,                      \* Community._sync_cache
    _nrsyncpackets,                   \* Community._nrsyncpackets
    capacity,                         \* BloomFilter.get_capacity(error_rate)
    strategy,                         \* Community.dispersy_sync_bloom_filter_strategy
    result,                           \* what the last handler returned or raised
    classification,                   \* class of the community object ("" when there is none)
    attached,                         \* Dispersy has the community attached
    database,                         \* the community and member rows of the master member
    _master_member,                   \* Community._master_member
    _pending_callbacks,               \* Community._pending_callbacks
    callback,                         \* Dispersy.callback: the registered calls
    _destroy_community_packet,        \* HardKilledCommunity._destroy_community_packet
    outbox,                           \* what Dispersy.endpoint was asked to send
    _timeline,                        \* the messages handed to the timeline handlers
    _walked_candidates,               \* Community._walked_candidates (a generator)
    _stumbled_candidates,             \* Community._stumbled_candidates (a generator)
    _walk_candidates,                 \* Community._walk_candidates (a generator)
    _bootstrap_candidates,            \* Community._bootstrap_candidates (a generator)
    bootstrap_candidates,             \* Dispersy.bootstrap_candidates: address -> eligible for a walk
    statistics,                       \* Dispersy.statistics: the counters of add_candidate
    _conversions                      \* Community._conversions: prefix -> conversion

timeVars == <<_global_time, calls>>
clockVars == <<now, _acceptable_global_time_cache, _acceptable_global_time_deadline>>
configVars == <<_meta_messages, capacity, strategy>>
syncVars == <<sync, _sync_cache, _nrsyncpackets>>
iterVars == <<_walked_candidates, _stumbled_candidates, _walk_candidates,
              _bootstrap_candidates, bootstrap_candidates, statistics, _conversions>>
lifeVars == <<classification, attached, database, _master_member, _pending_callbacks,
              callback, _destroy_community_packet, outbox, _timeline, iterVars>>
vars == <<_global_time, calls, now, _acceptable_global_time_cache,
          _acceptable_global_time_deadline, candidates, _meta_messages, sync,
          _sync_cache, _nrsyncpackets, capacity, strategy, result, lifeVars>>

-----------------------------------------------------------------------------
(* Bounds of the model *)

\* largest global time a peer reports or a stored packet carries
MaxGT == 2
\* number of claim_global_time / update_global_time calls of one behaviour
MaxCalls == 6
\* number of candidates in Dispersy's candidate pool
NumCandidates == 7
\* latest clock reading
MaxNow == 13
\* number of times the model reuses one cached filter
MaxReuse == 1

-----------------------------------------------------------------------------
(* Helpers *)

Max2(a, b) == IF a >= b THEN a ELSE b
Min2(a, b) == IF a <= b THEN a ELSE b

NoneValue == [kind |-> "None"]

\* the bootstrap peers Dispersy knows, all of them eligible for a walk at the start
NumBootstrap == 2
BootstrapAddrs == 11..(10 + NumBootstrap)
FreshBootstrap == [b \in BootstrapAddrs |-> TRUE]

\* a generator that was created and not yet resumed, or that resumes at the top
\* of its outer loop
NotStarted == [at |-> "start", key_value |-> 0, key_index |-> 0]

\* the result of a handler that returns nothing
Nothing == [op |-> "", kind |-> "return"]

RECURSIVE MaxOfSet(_)
\* SELECT MAX(...): the largest element of a set of numbers, None (here 0) when empty
MaxOfSet(S) ==
    IF S = {} THEN 0
    ELSE LET x == CHOOSE y \in S : TRUE
             m == MaxOfSet(S \ {x})
         IN  IF x >= m THEN x ELSE m

-----------------------------------------------------------------------------
(* Global time: Community.__init__, claim_global_time, update_global_time *)

\* global times handed to update_global_time
UpdateValues == {0, 2, 100}

\* __init__: the global time is MAX(global_time) of the stored packets, 0 without
InitGlobalTime(rows) == MaxOfSet({r.global_time : r \in rows})

\* the global_time property
global_time == Max2(1, _global_time)

\* The history `calls' is kept only by the specifications that start it empty;
\* the others start it with HistoryOff and bound the global time instead.
HistoryOff == <<[op |-> "off", arg |-> 0, ret |-> 0]>>
Recording == calls = <<>> \/ calls[1].op # "off"
Record(call) == IF Recording THEN Append(calls, call) ELSE calls
CallAllowed == IF Recording THEN Len(calls) < MaxCalls ELSE _global_time <= MaxGT

claim_global_time_stale ==
    /\ CallAllowed
    /\ _global_time' = _global_time + 1
    /\ calls' = Record([op |-> "claim", arg |-> 0, ret |-> _global_time])
    /\ result' = [op |-> "claim_global_time", kind |-> "return", value |-> _global_time]
    /\ UNCHANGED <<clockVars, candidates, configVars, lifeVars, syncVars>>

claim_global_time ==
    /\ CallAllowed
    /\ _global_time' = _global_time + 1
    /\ calls' = Record([op |-> "claim", arg |-> 0, ret |-> _global_time'])
    /\ result' = [op |-> "claim_global_time", kind |-> "return", value |-> _global_time']
    /\ UNCHANGED <<clockVars, candidates, configVars, lifeVars, syncVars>>

update_global_time_overwrite(g) ==
    /\ CallAllowed
    /\ _global_time' = g
    /\ calls' = Record([op |-> "update", arg |-> g, ret |-> 0])
    /\ result' = Nothing
    /\ UNCHANGED <<clockVars, candidates, configVars, lifeVars, syncVars>>

update_global_time(g) ==
    /\ CallAllowed
    /\ _global_time' = Max2(_global_time, g)
    /\ calls' = Record([op |-> "update", arg |-> g, ret |-> 0])
    /\ result' = Nothing
    /\ UNCHANGED <<clockVars, candidates, configVars, lifeVars, syncVars>>

-----------------------------------------------------------------------------
(* Acceptable global time: Community.acceptable_global_time *)

\* Dispersy.candidates: sock_addr -> what the community sees of the candidate.
\* `active' is candidate.in_community(self, now) and candidate.is_any_active(now),
\* `global_time' is candidate.get_global_time(self).
SockAddrs == 1..NumCandidates
Inactive == [active |-> FALSE, global_time |-> 0]
\* what a candidate of an initial pool is: inactive with an opinion, or active
\* without an opinion (0), with a low one or with a high one
CandidateKinds ==
    << [active |-> FALSE, global_time |-> 3], [active |-> TRUE, global_time |-> 0],
       [active |-> TRUE, global_time |-> 1], [active |-> TRUE, global_time |-> 3] >>
\* The property reads the pool through sorted(...) only, so one pool per multiset
\* of candidate kinds is enumerated (kinds in non-increasing order of address).
CandidatePools ==
    { [c \in SockAddrs |-> CandidateKinds[k[c]]] :
        k \in { f \in [SockAddrs -> 1..Len(CandidateKinds)] :
                  \A c \in SockAddrs : c = 1 \/ f[c - 1] >= f[c] } }

dispersy_acceptable_global_time_range == 10000

\* the threshold of `len(options) > 5'
OpinionQuorum == 5

\* 2**63-1 in the source.  TLC's integers are 32 bits wide, so the clamp is placed
\* at 2**30: above every global time of the model plus the range, and reached by
\* the global times ClampValues that update_global_time is handed.
MaxStoredInt == 1073741824
ClampValues == {MaxStoredInt - 10001, MaxStoredInt - 10000, MaxStoredInt + 7}

\* the candidates whose opinion is gathered, line 1094
Opining == {c \in DOMAIN candidates : candidates[c].active /\ candidates[c].global_time > 0}

RECURSIVE SortedOpinionsOf(_)
\* sorted(...): ascending list of the opinions of the candidates in S
SortedOpinionsOf(S) ==
    IF S = {} THEN <<>>
    ELSE LET c == CHOOSE x \in S : \A y \in S : candidates[x].global_time <= candidates[y].global_time
         IN  <<candidates[c].global_time>> \o SortedOpinionsOf(S \ {c})

options == SortedOpinionsOf(Opining)

median_global_time_lower ==
    IF Len(options) > OpinionQuorum
    THEN options[((Len(options) - 1) \div 2) + 1]
    ELSE 0

\* options[len(options) / 2], Python's index counted from 0
median_global_time ==
    IF Len(options) > OpinionQuorum
    THEN options[(Len(options) \div 2) + 1]
    ELSE 0

acceptable_global_time_helper ==
    Min2(Max2(_global_time, median_global_time) + dispersy_acceptable_global_time_range,
         MaxStoredInt)

\* line 1109 with `<=': a read at the deadline recomputes already
AcceptableExpired_at_deadline == _acceptable_global_time_deadline <= now

\* whether this read recomputes the cached value, line 1109
AcceptableExpired == _acceptable_global_time_deadline < now

\* the value a read of the property returns
acceptable_global_time ==
    IF AcceptableExpired THEN acceptable_global_time_helper
    ELSE _acceptable_global_time_cache

\* what a read of the property does to the cache
AcceptableRead ==
    /\ _acceptable_global_time_cache' = acceptable_global_time
    /\ _acceptable_global_time_deadline' =
           IF AcceptableExpired THEN now + 5 ELSE _acceptable_global_time_deadline

\* a caller reads community.acceptable_global_time
read_acceptable_global_time ==
    /\ AcceptableRead
    /\ result' = [op |-> "acceptable_global_time", kind |-> "return",
                  value |-> acceptable_global_time]
    /\ UNCHANGED <<timeVars, now, candidates, configVars, lifeVars, syncVars>>

\* the clock advances by d seconds
Tick(d) ==
    /\ now + d <= MaxNow
    /\ now' = now + d
    /\ result' = Nothing
    /\ UNCHANGED <<timeVars, _acceptable_global_time_cache,
                   _acceptable_global_time_deadline, candidates, configVars, lifeVars,
                   syncVars>>

-----------------------------------------------------------------------------
(* The sync table and the SELECTs of the strategies *)

\* Meta messages: name, isinstance(distribution, SyncDistribution), distribution.priority
MetaFull == [name |-> "full-sync-text", sync |-> TRUE, priority |-> 128]
MetaLow == [name |-> "low-priority-text", sync |-> TRUE, priority |-> 32]
MetaDirect == [name |-> "direct-text", sync |-> FALSE, priority |-> 128]

\* the database ids joined by lines 753 and 827
syncable_messages ==
    {m.name : m \in {x \in _meta_messages : x.sync /\ x.priority > 32}}

\* distribution.priority of the meta message called `name'
PriorityOf(name) == (CHOOSE m \in _meta_messages : m.name = name).priority

\* A row of the sync table is [global_time, meta, member, undone]; its packet is
\* told by (global_time, meta, member).
Packet(r) == [global_time |-> r.global_time, meta |-> r.meta, member |-> r.member]
Row(pk, undone) ==
    [global_time |-> pk.global_time, meta |-> pk.meta, member |-> pk.member,
     undone |-> undone]

\* WHERE meta_message IN (...) AND undone = 0 AND global_time > ? (or < ?)
Selectable(gt, higher) ==
    {r \in sync : /\ r.meta \in syncable_messages
                  /\ ~r.undone
                  /\ IF higher THEN r.global_time > gt ELSE r.global_time < gt}

RECURSIVE OrderByGlobalTime(_, _)
\* the row r followed by the other rows of S in order
PutFirst(r, S, asc) == <<r>> \o OrderByGlobalTime(S \ {r}, asc)

\* ORDER BY global_time ASC (asc) or DESC.  The order among equal global times is
\* the database's; the code drops or keeps a group of equal global times whole.
OrderByGlobalTime(S, asc) ==
    IF S = {} THEN <<>>
    ELSE PutFirst(CHOOSE x \in S : \A y \in S :
                      IF asc THEN x.global_time <= y.global_time
                             ELSE x.global_time >= y.global_time,
                  S, asc)

\* LIMIT n
Limit(rows, n) == SubSeq(rows, 1, Min2(n, Len(rows)))

Reverse(rows) == [i \in 1..Len(rows) |-> rows[Len(rows) + 1 - i]]

RECURSIVE DropWhileLast(_, _)
\* while data and data[-1][0] == global_time: del data[-1]
DropWhileLast(data, gt) ==
    IF data # <<>> /\ data[Len(data)].global_time = gt
    THEN DropWhileLast(SubSeq(data, 1, Len(data) - 1), gt)
    ELSE data

\* lines 872-875: if not higher: data.reverse(); return data, fixed
Selection(data, fixed, higher) ==
    [data |-> IF higher THEN data ELSE Reverse(data), fixed |-> fixed]

\* lines 861-870 with line 868 alone: the rows of the cut-off global time are kept
FixSelection_keeps_group(data, to_select, higher) ==
    IF Len(data) > to_select
    THEN Selection(SubSeq(data, 1, Len(data) - 1), TRUE, higher)
    ELSE Selection(data, FALSE, higher)

\* lines 861-870 on the rows `data' the SELECT returned
FixSelection(data, to_select, higher) ==
    IF Len(data) > to_select
    THEN Selection(DropWhileLast(SubSeq(data, 1, Len(data) - 1),
                                 data[Len(data)].global_time), TRUE, higher)
    ELSE Selection(data, FALSE, higher)

_select_and_fix(gt, to_select, higher) ==
    FixSelection(Limit(OrderByGlobalTime(Selectable(gt, higher), higher), to_select + 1),
                 to_select, higher)

\* the threshold of `to_select > 25', line 887
ExtendThreshold == 25

\* a selection that was not made: lowerfixed = higherfixed = True, lines 880-881
NoSelection == [data |-> <<>>, fixed |-> TRUE]

\* lines 895-915 on the rows `data'.  [raised, range, data]: raised stands for the
\* IndexError of line 895 on an empty selection.
BloomfilterRange(data, lowerfixed, fixed, higherfixed, gt, higher, acc) ==
    IF data = <<>>
    THEN [raised |-> TRUE, range |-> <<0, 0, 0>>, data |-> data]
    ELSE [raised |-> FALSE,
          range |-> << IF higher
                       THEN IF ~lowerfixed THEN 1 ELSE Min2(data[1].global_time, gt + 1)
                       ELSE IF ~fixed THEN 1 ELSE data[1].global_time,
                       IF higher
                       THEN IF ~fixed THEN acc ELSE data[Len(data)].global_time
                       ELSE IF ~higherfixed THEN acc
                            ELSE Max2(data[Len(data)].global_time, gt - 1),
                       Len(data) >>,
          data |-> data]

\* lines 889-893: data = lowerdata + data, or data + higherdata
ExtendedRange(lower, first, upper, gt, higher, acc) ==
    BloomfilterRange(IF higher THEN lower.data \o first.data ELSE first.data \o upper.data,
                     lower.fixed, first.fixed, upper.fixed, gt, higher, acc)

\* lines 883-893 on the first selection
ExtendSelection(first, gt, to_select, higher, acc) ==
    IF Len(first.data) < to_select /\ to_select - Len(first.data) > ExtendThreshold
    THEN IF higher
         THEN ExtendedRange(_select_and_fix(gt + 1, to_select - Len(first.data), FALSE),
                            first, NoSelection, gt, higher, acc)
         ELSE ExtendedRange(NoSelection, first,
                            _select_and_fix(gt - 1, to_select - Len(first.data), TRUE),
                            gt, higher, acc)
    ELSE ExtendedRange(NoSelection, first, NoSelection, gt, higher, acc)

\* acc is what self.acceptable_global_time returns
_select_bloomfilter_range(gt, to_select, higher, acc) ==
    ExtendSelection(_select_and_fix(gt, to_select, higher), gt, to_select, higher, acc)

-----------------------------------------------------------------------------
(* The strategies: _dispersy_claim_sync_bloom_filter_largest and _modulo *)

\* my_member.signature_length, "usually 60 bytes"
signature_length == 60

dispersy_sync_bloom_filter_bits ==
    (1500 - 60 - 8 - 51 - signature_length - 21 - 30) * 8

\* BloomFilter(bits, ...) after add_keys(str(packet) for packet in data)
BloomFilter(bits, data) ==
    [bits |-> bits, keys |-> {Packet(data[i]) : i \in 1..Len(data)}]

SyncTuple(time_low, time_high, modulo, offset, bloom_filter) ==
    [time_low |-> time_low, time_high |-> time_high, modulo |-> modulo,
     offset |-> offset, bloom_filter |-> bloom_filter]

\* What one run of a strategy does: it returns a tuple or raises, it may set
\* _nrsyncpackets, and it may read acceptable_global_time.
Returns(value, nr, reads) ==
    [kind |-> "return", exc |-> "", value |-> value, nrsyncpackets |-> nr, reads |-> reads]
Raises(exc, nr, reads) ==
    [kind |-> "raise", exc |-> exc, value |-> NoneValue, nrsyncpackets |-> nr, reads |-> reads]

\* (left[1] or self.global_time) - left[0], lines 776-777
RangeWidth(r) == (IF r.range[2] # 0 THEN r.range[2] ELSE global_time) - r.range[1]

\* lines 806-815 on the range chosen by the pivot branch
PivotTuple(chosen, acc) ==
    Returns(SyncTuple(Min2(chosen.range[1], acc), Min2(chosen.range[2], acc), 1, 0,
                      BloomFilter(dispersy_sync_bloom_filter_bits, chosen.data)),
            _nrsyncpackets, TRUE)

\* lines 774-790: left is selected only when right reached the capacity
PivotChoice(right, left, acc) ==
    IF right.raised THEN Raises("IndexError", _nrsyncpackets, TRUE)
    ELSE IF right.range[3] # capacity THEN PivotTuple(right, acc)
    ELSE IF left.raised THEN Raises("IndexError", _nrsyncpackets, TRUE)
    ELSE IF RangeWidth(left) > RangeWidth(right) THEN PivotTuple(left, acc)
    ELSE PivotTuple(right, acc)

\* lines 768-790, the branch of a pivot above 1 with enough packets seen
LargestPivotBranch(from_gbtime, acc) ==
    PivotChoice(_select_bloomfilter_range(from_gbtime - 1, capacity, TRUE, acc),
                _select_bloomfilter_range(from_gbtime + 1, capacity, FALSE, acc), acc)

\* lines 798-822 with the number of selected packets recorded at line 803
OldestTuple_records_selected(sel, acc) ==
    IF Len(sel.data) > 0
    THEN Returns(SyncTuple(Min2(1, acc),
                           Min2(IF sel.fixed THEN sel.data[Len(sel.data)].global_time
                                             ELSE acc, acc),
                           1, 0, BloomFilter(dispersy_sync_bloom_filter_bits, sel.data)),
                 Len(sel.data), TRUE)
    ELSE Returns(SyncTuple(1, acc, 1, 0, BloomFilter(8, <<>>)), _nrsyncpackets, TRUE)

\* lines 798-822 on the selection of the oldest packets
OldestTuple(sel, acc) ==
    IF Len(sel.data) > 0
    THEN Returns(SyncTuple(Min2(1, acc),
                           Min2(IF sel.fixed THEN sel.data[Len(sel.data)].global_time
                                             ELSE acc, acc),
                           1, 0, BloomFilter(dispersy_sync_bloom_filter_bits, sel.data)),
                 IF sel.fixed THEN capacity + 1 ELSE _nrsyncpackets, TRUE)
    ELSE Returns(SyncTuple(1, acc, 1, 0, BloomFilter(8, <<>>)), _nrsyncpackets, TRUE)

\* lines 794-822, the oldest packets first
LargestOldestBranch(acc) == OldestTuple(_select_and_fix(0, capacity, TRUE), acc)

\* _dispersy_claim_sync_bloom_filter_largest with the pivot from_gbtime drawn.
\* Without a syncable meta message line 822 reads the local acceptable_global_time
\* that only line 758 assigns: UnboundLocalError.
_dispersy_claim_sync_bloom_filter_largest(from_gbtime) ==
    IF syncable_messages = {}
    THEN Raises("UnboundLocalError", _nrsyncpackets, FALSE)
    ELSE IF from_gbtime > 1 /\ _nrsyncpackets >= capacity
         THEN LargestPivotBranch(from_gbtime, acceptable_global_time)
         ELSE LargestOldestBranch(acceptable_global_time)

\* the pivots lines 762-766 can draw: global_time - int(expovariate(..)) when that
\* is at least 1, else int(random() * global_time)
Pivots == 0..global_time

\* the rows of SELECT ... WHERE meta_message IN (...) AND undone = 0
SyncableRows == {r \in sync : r.meta \in syncable_messages /\ ~r.undone}

\* SELECT count(*) ... AND undone = 0
CountSyncable == Cardinality(SyncableRows)

\* int(count / capacity), without the ceil
CeilDiv_floor(n, d) == n \div d

\* int(ceil(count / float(capacity)))
CeilDiv(n, d) == (n + d - 1) \div d

\* lines 834-849 with the modulo computed and the offset drawn
ModuloTuple(modulo, offset, count) ==
    IF modulo > 1
    THEN Returns(SyncTuple(1, acceptable_global_time, modulo, offset,
                           BloomFilter(dispersy_sync_bloom_filter_bits,
                               OrderByGlobalTime({r \in SyncableRows :
                                   (r.global_time + offset) % modulo = 0}, TRUE))),
                 count, TRUE)
    ELSE Returns(SyncTuple(1, acceptable_global_time, 1, 0,
                           BloomFilter(dispersy_sync_bloom_filter_bits,
                                       OrderByGlobalTime(SyncableRows, TRUE))),
                 count, TRUE)

\* _dispersy_claim_sync_bloom_filter_modulo with the offset drawn by randint
_dispersy_claim_sync_bloom_filter_modulo(offset) ==
    IF syncable_messages = {}
    THEN Returns(SyncTuple(1, acceptable_global_time, 1, 0, BloomFilter(8, <<>>)),
                 _nrsyncpackets, TRUE)
    ELSE ModuloTuple(CeilDiv(CountSyncable, capacity), offset, CountSyncable)

\* randint(0, modulo), one past the last offset
Offsets_inclusive ==
    IF syncable_messages # {} /\ CeilDiv(CountSyncable, capacity) > 1
    THEN 0..CeilDiv(CountSyncable, capacity) ELSE {0}

\* randint(0, modulo - 1); 0 where no offset is drawn
Offsets ==
    IF syncable_messages # {} /\ CeilDiv(CountSyncable, capacity) > 1
    THEN 0..(CeilDiv(CountSyncable, capacity) - 1) ELSE {0}

\* every outcome dispersy_sync_bloom_filter_strategy() can have in this state
StrategyOutcomes ==
    IF strategy = "largest"
    THEN {_dispersy_claim_sync_bloom_filter_largest(p) : p \in Pivots}
    ELSE {_dispersy_claim_sync_bloom_filter_modulo(o) : o \in Offsets}

-----------------------------------------------------------------------------
(* The sync cache: dispersy_claim_sync_bloom_filter and dispersy_store *)

\* SyncCache.__init__ followed by line 582
SyncCache(sync_tuple, candidate) ==
    [kind |-> "SyncCache",
     time_low |-> sync_tuple.time_low, time_high |-> sync_tuple.time_high,
     modulo |-> sync_tuple.modulo, offset |-> sync_tuple.offset,
     bloom_filter |-> sync_tuple.bloom_filter,
     times_used |-> 0, responses_received |-> 0, candidate |-> candidate]

\* the tuple line 577 returns
CacheTuple(cache) ==
    SyncTuple(cache.time_low, cache.time_high, cache.modulo, cache.offset,
              cache.bloom_filter)

\* the times a cached filter may be handed out again, line 568
MaxTimesUsed == 100

\* lines 566-568
CacheReusable ==
    /\ _sync_cache.kind = "SyncCache"
    /\ _sync_cache.responses_received > 0
    /\ _sync_cache.times_used < MaxTimesUsed

\* lines 569-577 without the reset of line 573
ClaimReuse_keeps_responses(helper_candidate) ==
    /\ CacheReusable
    /\ _sync_cache.times_used < MaxReuse
    /\ _sync_cache' = [_sync_cache EXCEPT !.times_used = @ + 1,
                                          !.candidate = helper_candidate]
    /\ result' = [op |-> "dispersy_claim_sync_bloom_filter", path |-> "reuse",
                  kind |-> "return", exc |-> "", value |-> CacheTuple(_sync_cache')]
    /\ UNCHANGED <<timeVars, clockVars, candidates, configVars, lifeVars, sync, _nrsyncpackets>>

\* lines 569-577
ClaimReuse(helper_candidate) ==
    /\ CacheReusable
    /\ _sync_cache.times_used < MaxReuse
    /\ _sync_cache' = [_sync_cache EXCEPT !.times_used = @ + 1,
                                          !.responses_received = 0,
                                          !.candidate = helper_candidate]
    /\ result' = [op |-> "dispersy_claim_sync_bloom_filter", path |-> "reuse",
                  kind |-> "return", exc |-> "", value |-> CacheTuple(_sync_cache')]
    /\ UNCHANGED <<timeVars, clockVars, candidates, configVars, lifeVars, sync, _nrsyncpackets>>

\* lines 579-587
ClaimFresh(helper_candidate) ==
    /\ ~CacheReusable
    /\ \E out \in StrategyOutcomes :
          /\ _nrsyncpackets' = out.nrsyncpackets
          /\ IF out.reads THEN AcceptableRead
                          ELSE UNCHANGED <<_acceptable_global_time_cache,
                                           _acceptable_global_time_deadline>>
          /\ _sync_cache' = IF out.kind = "return"
                            THEN SyncCache(out.value, helper_candidate)
                            ELSE _sync_cache
          /\ result' = [op |-> "dispersy_claim_sync_bloom_filter", path |-> "fresh",
                        kind |-> out.kind, exc |-> out.exc, value |-> out.value]
    /\ UNCHANGED <<timeVars, now, candidates, configVars, lifeVars, sync>>

dispersy_claim_sync_bloom_filter(helper_candidate) ==
    \/ ClaimReuse(helper_candidate)
    \/ ClaimFresh(helper_candidate)

\* lines 544-546 with priority >= 32
InCache_priority_inclusive(cache, message) ==
    /\ message.priority >= 32
    /\ cache.time_low <= message.global_time
    /\ message.global_time <= cache.time_high
    /\ (message.global_time + cache.offset) % cache.modulo = 0

\* lines 544-546
InCache(cache, message) ==
    /\ message.priority > 32
    /\ cache.time_low <= message.global_time
    /\ message.global_time <= cache.time_high
    /\ (message.global_time + cache.offset) % cache.modulo = 0

\* line 555; the candidate None is the address 0
FromCacheCandidate(cache, message) ==
    /\ cache.candidate # 0
    /\ message.candidate # 0
    /\ cache.candidate = message.candidate

RECURSIVE dispersy_store(_, _)
\* dispersy_store: the cache after the loop of line 543 over `messages'
dispersy_store(cache, messages) ==
    IF cache.kind # "SyncCache" \/ messages = <<>> THEN cache
    ELSE LET message == Head(messages)
             added == [cache EXCEPT !.bloom_filter.keys = @ \cup {Packet(message)}]
             counted == [added EXCEPT !.responses_received = @ + 1]
             next == IF InCache(cache, message)
                     THEN IF FromCacheCandidate(cache, message) THEN counted ELSE added
                     ELSE cache
         IN  dispersy_store(next, Tail(messages))

\* a message as dispersy_store reads it
Message(pk, candidate) ==
    [global_time |-> pk.global_time, meta |-> pk.meta, member |-> pk.member,
     priority |-> PriorityOf(pk.meta), candidate |-> candidate]

\* Dispersy stores a batch of new messages: it inserts their rows, updates the
\* global time and calls community.dispersy_store(messages).  batch is a sequence
\* of <<packet, candidate>>.
store_messages(batch) ==
    LET packets == {batch[i][1] : i \in 1..Len(batch)}
        messages == [i \in 1..Len(batch) |-> Message(batch[i][1], batch[i][2])]
    IN  /\ Cardinality(packets) = Len(batch)
        /\ \A pk \in packets :
              /\ \E m \in _meta_messages : m.name = pk.meta /\ m.sync
              /\ ~\E r \in sync : r.member = pk.member /\ r.global_time = pk.global_time
        /\ \A pk, pl \in packets :
              (pk.member = pl.member /\ pk.global_time = pl.global_time) => pk = pl
        /\ sync' = sync \cup {Row(pk, FALSE) : pk \in packets}
        /\ _global_time' = Max2(_global_time, MaxOfSet({pk.global_time : pk \in packets}))
        /\ _sync_cache' = dispersy_store(_sync_cache, messages)
        /\ result' = Nothing
        /\ UNCHANGED <<calls, clockVars, candidates, configVars, lifeVars, _nrsyncpackets>>

\* Dispersy marks a stored packet as undone (sync.undone = 1)
undo(r) ==
    /\ r \in sync /\ ~r.undone
    /\ sync' = (sync \ {r}) \cup {[r EXCEPT !.undone = TRUE]}
    /\ result' = Nothing
    /\ UNCHANGED <<timeVars, clockVars, candidates, configVars, lifeVars, _sync_cache, _nrsyncpackets>>

\* d seconds pass, after which no candidate of the pool is active for the community
candidates_timeout(d) ==
    /\ \E c \in DOMAIN candidates : candidates[c].active
    /\ now + d <= MaxNow
    /\ now' = now + d
    /\ candidates' = [c \in DOMAIN candidates |-> [candidates[c] EXCEPT !.active = FALSE]]
    /\ result' = Nothing
    /\ UNCHANGED <<timeVars, _acceptable_global_time_cache,
                   _acceptable_global_time_deadline, configVars, lifeVars, syncVars>>

-----------------------------------------------------------------------------
(* Initial states *)

\* the attributes __init__ sets from the store holding `rows' and the configuration
InitAttributes(rows, metas, cap, strat, cands, history) ==
    /\ sync = rows
    /\ _global_time = InitGlobalTime(rows)
    /\ calls = history
    /\ now = 1
    /\ _acceptable_global_time_cache = _global_time
    /\ _acceptable_global_time_deadline = 0
    /\ candidates = cands
    /\ _meta_messages = metas
    /\ _sync_cache = NoneValue
    /\ _nrsyncpackets = 0
    /\ capacity = cap
    /\ strategy = strat
    /\ result = Nothing

\* None as a key of self._conversions
NoPrefix == <<>>

\* a conversion of the community: conversion.prefix is the dispersy version, the
\* community version and the cid of the community (1 in the model);
\* conversion.version is the pair of the two versions
Conversion(dispersy_version, community_version) ==
    [prefix |-> <<dispersy_version, community_version, 1>>,
     version |-> <<dispersy_version, community_version>>]

\* BinaryConversion(community, community_version): dispersy version "\x00"
BinaryConversion(community_version) == Conversion(0, community_version)

\* DefaultConversion(community)
DefaultConversion == BinaryConversion(0)

\* initiate_conversions(), lines 1652-1655
initiate_conversions == <<DefaultConversion>>

\* lines 287-291: the conversions by prefix, the last one under None as well
Conversions(conversions) ==
    [k \in {conversions[i].prefix : i \in 1..Len(conversions)} \cup {NoPrefix} |->
        IF k = NoPrefix THEN conversions[Len(conversions)]
        ELSE conversions[CHOOSE i \in 1..Len(conversions) :
                            /\ conversions[i].prefix = k
                            /\ \A j \in (i + 1)..Len(conversions) : conversions[j].prefix # k]]

\* Dispersy.statistics when the table holds `cands': every candidate of the table
\* was counted once by add_candidate (lines 1497-1500)
Statistics(cands) ==
    [total_candidates_discovered |-> Cardinality(DOMAIN cands),
     total_candidates_overlapped |-> 0]

\* an object of the class, loaded and attached, whose master member has its public
\* key, with the destroy packet lines 1623-1630 found and the conversions
\* initiate_conversions() returned
InitObject(cls, packet, conversions) ==
    /\ classification = cls
    /\ attached = TRUE
    /\ database = [community |-> TRUE, public_key |-> TRUE, classification |-> cls]
    /\ _master_member = [public_key |-> TRUE]
    /\ _pending_callbacks = <<>>
    /\ callback = {}
    /\ _destroy_community_packet = packet
    /\ outbox = <<>>
    /\ _timeline = <<>>
    /\ _walked_candidates = NotStarted
    /\ _stumbled_candidates = NotStarted
    /\ _walk_candidates = NotStarted
    /\ _bootstrap_candidates = NotStarted
    /\ bootstrap_candidates = FreshBootstrap
    /\ statistics = Statistics(candidates)
    /\ _conversions = Conversions(conversions)

\* a community of class Community, loaded and attached, whose master member has its
\* public key (so that line 273 registers nothing)
InitLoaded == InitObject("Community", NoneValue, initiate_conversions)

\* Community.__init__ on a store holding `rows', with the given configuration
InitCommunity(rows, metas, cap, strat, cands, history) ==
    /\ InitAttributes(rows, metas, cap, strat, cands, history)
    /\ InitLoaded

-----------------------------------------------------------------------------
(* Specification of the global time alone *)

InitTime == InitCommunity({}, {}, 1, "largest", <<>>, <<>>)

NextTime ==
    \/ claim_global_time
    \/ \E g \in UpdateValues : update_global_time(g)

SpecTime == InitTime /\ [][NextTime]_vars

-----------------------------------------------------------------------------
(* Specification of the acceptable global time *)

\* the scenario of six (five) candidates reporting 10, 20, .. 60 (.. 50)
ScenarioPool(n) ==
    [c \in SockAddrs |-> IF c <= n THEN [active |-> TRUE, global_time |-> 10 * c]
                                   ELSE Inactive]

InitAccept ==
    \E cands \in CandidatePools \cup {ScenarioPool(6), ScenarioPool(5)} :
        InitCommunity({}, {}, 1, "largest", cands, HistoryOff)

NextAccept ==
    \/ read_acceptable_global_time
    \/ \E g \in {2, 5} \cup ClampValues : update_global_time(g)
    \/ Tick(6)

SpecAccept == InitAccept /\ [][NextAccept]_vars

-----------------------------------------------------------------------------
(* Claims about the global time *)

ClaimCalls == {i \in 1..Len(calls) : calls[i].op = "claim"}

C1_ClaimsIncrease ==
    \A i, j \in ClaimCalls : i < j => calls[i].ret < calls[j].ret

\* C1: across any interleaving of claim_global_time and update_global_time
\* calls, every claim returns a value strictly greater than every value an
\* earlier claim returned, and the local global time never decreases.
C1_ClaimStrictlyMonotonic ==
    /\ []C1_ClaimsIncrease
    /\ [][_global_time' >= _global_time]_vars

\* two claims with, between them, an update to a larger global time
C1_Witness ==
    \E i, j, k \in 1..Len(calls) :
        /\ i < j /\ j < k
        /\ calls[i].op = "claim" /\ calls[k].op = "claim"
        /\ calls[j].op = "update" /\ calls[j].arg > calls[i].ret

C2_Step ==
    LET call == calls'[Len(calls')]
    IN  /\ call.op = "claim" =>
              /\ call.ret = _global_time + 1
              /\ result'.value = _global_time + 1
              /\ _global_time' = _global_time + 1
        /\ call.op = "update" =>
              _global_time' = (IF call.arg > _global_time THEN call.arg ELSE _global_time)

C2_ScenarioCalls ==
    /\ Len(calls) >= 6
    /\ \A i \in 1..4 : calls[i].op = "claim"
    /\ calls[5].op = "update" /\ calls[5].arg = 100
    /\ calls[6].op = "claim"

C2_Scenario ==
    C2_ScenarioCalls =>
        <<calls[1].ret, calls[2].ret, calls[3].ret, calls[4].ret, calls[6].ret>>
            = <<1, 2, 3, 4, 101>>

\* C2: claim_global_time returns the previous local global time plus one,
\* update_global_time(g) sets it to max(previous, g); from global time 0 four
\* claims return 1, 2, 3, 4 and, after update_global_time(100), the next 101.
C2_ClaimAndUpdate ==
    /\ [][C2_Step]_vars
    /\ []C2_Scenario

\* the scenario has been played
C2_Witness == C2_ScenarioCalls /\ calls[6].ret = 101 /\ _global_time = 101

-----------------------------------------------------------------------------
(* Claims about the acceptable global time *)

\* the opinions the claim counts: positive, of candidates in the community and active
C10_Opining ==
    {c \in DOMAIN candidates : candidates[c].active /\ candidates[c].global_time > 0}

\* the element at index floor(n/2) of the ascending list, told by its rank
C10_Median ==
    LET n == Cardinality(C10_Opining)
        below(v) == Cardinality({c \in C10_Opining : candidates[c].global_time < v})
        upto(v) == Cardinality({c \in C10_Opining : candidates[c].global_time <= v})
    IN  IF n > 5
        THEN CHOOSE v \in {candidates[c].global_time : c \in C10_Opining} :
                 below(v) <= n \div 2 /\ n \div 2 < upto(v)
        ELSE 0

C10_Expected ==
    LET m == IF _global_time >= C10_Median THEN _global_time ELSE C10_Median
    IN  IF m + 10000 <= MaxStoredInt THEN m + 10000 ELSE MaxStoredInt

C10_Step ==
    (result'.op = "acceptable_global_time" /\ _acceptable_global_time_deadline < now) =>
        /\ result'.value = C10_Expected
        /\ _acceptable_global_time_cache' = C10_Expected
        /\ (candidates = ScenarioPool(6) /\ _global_time = 5) => result'.value = 10040
        /\ (candidates = ScenarioPool(5) /\ _global_time = 5) => result'.value = 10005

-----------------------------------------------------------------------------
(* Specification of the sync strategies and the sync cache *)

\* members writing at the first global time
MaxMember == 3
\* responses the model counts for one cached filter
MaxResponses == 2
\* bloom.get_capacity(error_rate) of the filters of the model
Capacity == 2

\* packets the peers of the model send: syncable texts of MaxMember members at the
\* first global time, of two members at the second and of one member later, or a
\* low-priority text
SyncPackets ==
    {[global_time |-> 1, meta |-> MetaFull.name, member |-> k] : k \in 1..MaxMember}
    \cup {[global_time |-> 2, meta |-> MetaFull.name, member |-> k] : k \in 1..2}
    \cup {[global_time |-> g, meta |-> MetaFull.name, member |-> 1] : g \in 3..MaxGT}
    \cup {[global_time |-> 2, meta |-> MetaLow.name, member |-> 1]}

\* request_cache.helper_candidate of the requests of the model
Helpers == {1, 2}

\* message.candidate of a stored message: None (0) or a helper
MessageCandidates == {0} \cup Helpers

\* the batches Dispersy stores: one message from any candidate, or a message of the
\* first helper at global time 1 followed by a second message at global time 2
SyncBatches ==
    {<< <<pk, c>> >> : pk \in SyncPackets, c \in MessageCandidates}
    \cup {<< <<pk, 1>>, <<pl, c>> >> :
              pk \in {x \in SyncPackets : x.global_time = 1 /\ x.member = 1},
              pl \in {x \in SyncPackets : x.global_time = 2 /\ x.member = 1},
              c \in Helpers}

HighPool ==
    [c \in SockAddrs |-> IF c <= 6 THEN [active |-> TRUE, global_time |-> MaxGT + 2]
                                   ELSE Inactive]
IdlePool == [c \in SockAddrs |-> Inactive]

\* the communities of the model: with or without a syncable meta message, with
\* either strategy, with a pool of idle candidates or of six with a high opinion
SyncCommunities ==
    { <<{MetaFull, MetaLow, MetaDirect}, "largest", HighPool>>,
      <<{MetaFull, MetaLow, MetaDirect}, "modulo", IdlePool>>,
      <<{MetaLow, MetaDirect}, "largest", IdlePool>>,
      <<{MetaLow, MetaDirect}, "modulo", IdlePool>> }

InitSync ==
    \E c \in SyncCommunities : InitCommunity({}, c[1], Capacity, c[2], c[3], HistoryOff)

ResponsesBounded ==
    _sync_cache'.kind = "SyncCache" => _sync_cache'.responses_received <= MaxResponses

NextSync ==
    \/ \E h \in Helpers : dispersy_claim_sync_bloom_filter(h)
    \/ \E batch \in SyncBatches : store_messages(batch) /\ ResponsesBounded
    \/ \E r \in {x \in sync : x.member = 1} : undo(r)
    \/ update_global_time(MaxGT + 1)
    \/ candidates_timeout(MaxNow - 1)

SpecSync == InitSync /\ [][NextSync]_vars

-----------------------------------------------------------------------------
(* Claims about the sync bloom filter handed out *)

\* the last handler was dispersy_claim_sync_bloom_filter and it returned a tuple
ClaimSyncReturned ==
    result.op = "dispersy_claim_sync_bloom_filter" /\ result.kind = "return"

C3_Shape(t) ==
    /\ 1 <= t.time_low /\ t.time_low <= t.time_high
    /\ t.modulo >= 1
    /\ 0 <= t.offset /\ t.offset < t.modulo

\* C3 as claimed: every tuple dispersy_claim_sync_bloom_filter returns, fresh or
\* reused, has 1 <= time_low <= time_high <= acceptable_global_time as read at the
\* return, modulo >= 1 and 0 <= offset < modulo.
C3_WithinAcceptableOnBothPaths ==
    ClaimSyncReturned =>
        /\ C3_Shape(result.value)
        /\ result.value.time_high <= acceptable_global_time

C3_Fresh ==
    (ClaimSyncReturned /\ result.path = "fresh") =>
        /\ C3_Shape(result.value)
        /\ result.value.time_high <= acceptable_global_time
        /\ _sync_cache.time_high = result.value.time_high

C3_ReuseStep ==
    (result'.op = "dispersy_claim_sync_bloom_filter" /\ result'.path = "reuse") =>
        /\ result'.kind = "return"
        /\ C3_Shape(result'.value)
        /\ result'.value.time_high = _sync_cache.time_high

C3_KeepsWindow ==
    (_sync_cache.kind = "SyncCache" /\ ~(ClaimSyncReturned' /\ result'.path = "fresh")) =>
        /\ _sync_cache'.kind = "SyncCache"
        /\ _sync_cache'.time_high = _sync_cache.time_high

\* C3 amended: every returned tuple has 1 <= time_low <= time_high, modulo >= 1
\* and 0 <= offset < modulo; a fresh tuple has time_high <= acceptable_global_time
\* as read at the return, and a reused tuple has the time_high its filter was
\* built with, which no step in between changes.
C3_TupleBounds ==
    /\ []C3_Fresh
    /\ [][C3_ReuseStep /\ C3_KeepsWindow]_vars

\* a filter is handed out again with a time_high above the acceptable global
\* time of the moment
C3_Witness ==
    /\ ClaimSyncReturned /\ result.path = "reuse"
    /\ result.value.time_high > acceptable_global_time
    /\ _sync_cache.times_used = 1

\* C4: every syncable packet the store holds when a tuple is returned, with a
\* global time in [time_low, time_high] and (global_time + offset) mod modulo = 0,
\* is in the returned bloom filter.  Only the rows the strategies select from,
\* those not undone, are asked for.
C4_NoFalseNegatives ==
    ClaimSyncReturned =>
        \A r \in sync :
            ( /\ r.meta \in syncable_messages /\ ~r.undone
              /\ result.value.time_low <= r.global_time
              /\ r.global_time <= result.value.time_high
              /\ (r.global_time + result.value.offset) % result.value.modulo = 0 )
            => Packet(r) \in result.value.bloom_filter.keys

C5_Effect(h) ==
    /\ result'.kind = "return"
    /\ result'.value.time_low = _sync_cache.time_low
    /\ result'.value.time_high = _sync_cache.time_high
    /\ result'.value.modulo = _sync_cache.modulo
    /\ result'.value.offset = _sync_cache.offset
    /\ result'.value.bloom_filter = _sync_cache.bloom_filter
    /\ _sync_cache'.bloom_filter = _sync_cache.bloom_filter
    /\ _sync_cache'.time_low = _sync_cache.time_low
    /\ _sync_cache'.time_high = _sync_cache.time_high
    /\ _sync_cache'.modulo = _sync_cache.modulo
    /\ _sync_cache'.offset = _sync_cache.offset
    /\ _sync_cache'.times_used = _sync_cache.times_used + 1
    /\ _sync_cache'.responses_received = 0
    /\ _sync_cache'.candidate = h
    /\ _nrsyncpackets' = _nrsyncpackets
    /\ _acceptable_global_time_deadline' = _acceptable_global_time_deadline
    /\ _acceptable_global_time_cache' = _acceptable_global_time_cache

C5_Step ==
    \A h \in Helpers :
        ( /\ _sync_cache.kind = "SyncCache"
          /\ _sync_cache.responses_received > 0
          /\ _sync_cache.times_used < 100
          /\ result'.op = "dispersy_claim_sync_bloom_filter"
          /\ dispersy_claim_sync_bloom_filter(h) )
        => C5_Effect(h)

\* C5: a claim made while a cache exists with responses_received > 0 and
\* times_used < 100 returns the cache's time_low, time_high, modulo, offset and
\* bloom filter as they are, adds one to times_used, sets responses_received to 0
\* and the candidate to the request's helper candidate, and runs no strategy:
\* _nrsyncpackets and the acceptable global time cache stay as they were.
C5_ReuseReturnsCache == [][C5_Step]_vars

\* a filter built for helper 1 has gone to helper 2 with a packet stored since
C5_Witness ==
    /\ ClaimSyncReturned /\ result.path = "reuse"
    /\ _sync_cache.times_used = 1 /\ _sync_cache.responses_received = 0
    /\ _sync_cache.candidate = 2
    /\ \E r \in sync : /\ Packet(r) \in result.value.bloom_filter.keys
                       /\ r.global_time = _global_time
                       /\ Cardinality(sync) = 1

C6_Step ==
    ( /\ result'.op = "dispersy_claim_sync_bloom_filter"
      /\ _sync_cache.kind = "SyncCache"
      /\ (_sync_cache.times_used >= 100 \/ _sync_cache.responses_received = 0) )
    => /\ result'.kind = "return"
       /\ result'.path = "fresh"
       /\ _sync_cache' \in {SyncCache(result'.value, h) : h \in Helpers}

\* C6: a cached filter with times_used at 100, or with no response counted since
\* it was handed out, is not handed out again: the next claim replaces it with a
\* fresh cache whose times_used and responses_received are 0; times_used never
\* exceeds 100.
C6_StaleCacheReplaced ==
    /\ [](_sync_cache.kind = "SyncCache" => _sync_cache.times_used <= 100)
    /\ [][C6_Step]_vars

\* the messages of a batch dispersy_store adds to the filter of `cache'
C7_Added(cache, batch) ==
    {i \in 1..Len(batch) :
        /\ \E m \in _meta_messages : m.name = batch[i][1].meta /\ m.priority > 32
        /\ cache.time_low <= batch[i][1].global_time
        /\ batch[i][1].global_time <= cache.time_high
        /\ (batch[i][1].global_time + cache.offset) % cache.modulo = 0}

C7_Effect(batch) ==
    IF _sync_cache.kind = "SyncCache"
    THEN LET added == C7_Added(_sync_cache, batch)
             counted == {i \in added : batch[i][2] = _sync_cache.candidate}
         IN  /\ _sync_cache'.bloom_filter.keys =
                    _sync_cache.bloom_filter.keys \cup {batch[i][1] : i \in added}
             /\ _sync_cache'.responses_received =
                    _sync_cache.responses_received + Cardinality(counted)
             /\ _sync_cache'.bloom_filter.bits = _sync_cache.bloom_filter.bits
             /\ CacheTuple(_sync_cache').time_high = _sync_cache.time_high
             /\ _sync_cache'.time_low = _sync_cache.time_low
             /\ _sync_cache'.modulo = _sync_cache.modulo
             /\ _sync_cache'.offset = _sync_cache.offset
             /\ _sync_cache'.times_used = _sync_cache.times_used
             /\ _sync_cache'.candidate = _sync_cache.candidate
    ELSE _sync_cache' = _sync_cache

C7_Step ==
    \A batch \in SyncBatches :
        ( /\ Row(batch[1][1], FALSE) \in sync'
          /\ Row(batch[1][1], FALSE) \notin sync
          /\ store_messages(batch) )
        => C7_Effect(batch)

\* C7: dispersy_store adds a stored message's packet to the cached filter exactly
\* when a cache exists, the message's priority is above 32, its global time is in
\* [time_low, time_high] and (global_time + offset) mod modulo = 0; it adds one to
\* responses_received for each such message from the cache's candidate, and for
\* no other.
C7_StoreUpdatesCache == [][C7_Step]_vars

\* a filter of modulo 2 has counted a response while a stored low-priority text
\* stayed out of it
C7_Witness ==
    /\ _sync_cache.kind = "SyncCache"
    /\ _sync_cache.modulo = 2
    /\ _sync_cache.responses_received >= 1
    /\ \E r \in sync : r.meta = MetaLow.name /\ Packet(r) \notin _sync_cache.bloom_filter.keys

\* C8: without a syncable meta message the largest strategy returns
\* (1, acceptable_global_time, 1, 0, empty 8-bit bloom filter).
C8_EmptyTupleWithoutSyncable ==
    ( /\ result.op = "dispersy_claim_sync_bloom_filter"
      /\ strategy = "largest"
      /\ syncable_messages = {} )
    => /\ result.kind = "return"
       /\ result.value = SyncTuple(1, acceptable_global_time, 1, 0, BloomFilter(8, <<>>))

\* C9: a tuple the largest strategy builds while the store holds fewer
\* non-undone syncable packets than the capacity has time_low = 1 and
\* time_high = acceptable_global_time.
C9_WholeRangeBelowCapacity ==
    ( /\ ClaimSyncReturned /\ result.path = "fresh"
      /\ strategy = "largest"
      /\ syncable_messages # {}
      /\ CountSyncable < capacity )
    => /\ result.value.time_low = 1
       /\ result.value.time_high = acceptable_global_time

-----------------------------------------------------------------------------
(* Specification of the cache of the acceptable global time *)

\* seconds between two events of the model
Delays == {1, 5}

InitCached ==
    \E cands \in {ScenarioPool(6), HighPool, IdlePool} :
        InitCommunity({}, {}, 1, "largest", cands, HistoryOff)

NextCached ==
    \/ read_acceptable_global_time
    \/ \E g \in {1, MaxGT + 1} : update_global_time(g)
    \/ \E d \in Delays : Tick(d)
    \/ candidates_timeout(1)

SpecCached == InitCached /\ [][NextCached]_vars

C11_ReadStep ==
    result'.op = "acceptable_global_time" =>
        IF _acceptable_global_time_deadline < now
        THEN /\ result'.value = C10_Expected
             /\ _acceptable_global_time_cache' = C10_Expected
             /\ _acceptable_global_time_deadline' = now + 5
        ELSE /\ result'.value = _acceptable_global_time_cache
             /\ _acceptable_global_time_cache' = _acceptable_global_time_cache
             /\ _acceptable_global_time_deadline' = _acceptable_global_time_deadline

C11_OtherStep ==
    result'.op # "acceptable_global_time" =>
        /\ _acceptable_global_time_cache' = _acceptable_global_time_cache
        /\ _acceptable_global_time_deadline' = _acceptable_global_time_deadline

\* no read yet: the deadline of construction has passed at any clock reading
C11_FirstReadRecomputes ==
    _acceptable_global_time_deadline = 0 => _acceptable_global_time_deadline < now

\* C11: a computed acceptable global time is returned unchanged by every read up
\* to 5 seconds later, whatever the global time and the candidates do in between;
\* the first read later than that, and the first read after construction,
\* recompute it.
C11_CachedFiveSeconds ==
    /\ []C11_FirstReadRecomputes
    /\ [][C11_ReadStep /\ C11_OtherStep]_vars

\* a read exactly 5 seconds after the computation has returned the cached value,
\* which a recomputation would no longer give
C11_Witness ==
    /\ result.op = "acceptable_global_time"
    /\ now = _acceptable_global_time_deadline
    /\ result.value # acceptable_global_time_helper

-----------------------------------------------------------------------------
(* The permission timeline: the replay of _initialize_timeline *)

\* A stored packet is a sequence of bytes: the message id, the signing member, the
\* global time and the signature (1 when it verifies).  Anything else is malformed.
GoodSignature == 1
TimelineNames == <<"dispersy-authorize", "dispersy-revoke", "dispersy-dynamic-settings">>
MessageIds == <<243, 242, 236>>
TimelineIndex(name) == CHOOSE i \in 1..Len(TimelineNames) : TimelineNames[i] = name
Encode(name, member, gt, signature) == <<MessageIds[TimelineIndex(name)], member, gt, signature>>

\* a row of the sync table with its packet column
TimelineRow(name, member, gt, packet) ==
    [global_time |-> gt, meta |-> name, member |-> member, undone |-> FALSE,
     packet |-> packet]

\* Dispersy.convert_packet_to_message: the message of a packet, or None when the
\* packet does not decode or (verify only) its signature does not verify
WellFormed(packet) ==
    /\ Len(packet) = 4
    /\ \E i \in 1..Len(MessageIds) : MessageIds[i] = packet[1]
Decoded(packet) ==
    [name |-> TimelineNames[CHOOSE i \in 1..Len(MessageIds) : MessageIds[i] = packet[1]],
     member |-> packet[2], global_time |-> packet[3], signature |-> packet[4]]
convert_packet_to_message(packet, verify) ==
    IF WellFormed(packet) /\ (verify => packet[4] = GoodSignature)
    THEN Decoded(packet)
    ELSE NoneValue

\* the comparison of two byte strings by ORDER BY: byte by byte, a prefix first
RECURSIVE BytesLess(_, _)
BytesLess(a, b) ==
    IF b = <<>> THEN FALSE
    ELSE IF a = <<>> THEN TRUE
    ELSE IF a[1] # b[1] THEN a[1] < b[1]
    ELSE BytesLess(Tail(a), Tail(b))

\* ORDER BY global_time, packet: does r sort before q?
Before_packet_first(r, q) ==
    \/ BytesLess(r.packet, q.packet)
    \/ r.packet = q.packet /\ r.global_time < q.global_time
Before(r, q) ==
    \/ r.global_time < q.global_time
    \/ r.global_time = q.global_time /\ BytesLess(r.packet, q.packet)

\* the rows of S in the orders the database may return them in: every row once,
\* none after a row that sorts behind it
OrderByGlobalTimePacket(S) ==
    { ordered \in [1..Cardinality(S) -> S] :
        /\ \A i, j \in 1..Cardinality(S) : i # j => ordered[i] # ordered[j]
        /\ \A i, j \in 1..Cardinality(S) : i < j => ~Before(ordered[j], ordered[i]) }

\* the meta messages whose handlers line 390 maps
TimelineRows(rows) == {r \in rows : \E i \in 1..Len(TimelineNames) : TimelineNames[i] = r.meta}

\* lines 399-410: each packet in order; a message goes to its handler with
\* initializing = True, a packet without a message is skipped
RECURSIVE Replay(_)
Handled(r) == [message |-> convert_packet_to_message(r.packet, FALSE), initializing |-> TRUE]
Replay(ordered) ==
    IF ordered = <<>> THEN <<>>
    ELSE IF convert_packet_to_message(ordered[1].packet, FALSE) # NoneValue
    THEN <<Handled(ordered[1])>> \o Replay(Tail(ordered))
    ELSE Replay(Tail(ordered))

\* the timelines _initialize_timeline may build from the rows of the store
_initialize_timeline(rows) ==
    { Replay(ordered) : ordered \in OrderByGlobalTimePacket(TimelineRows(rows)) }

-----------------------------------------------------------------------------
(* The life cycle of a community: load, unload, destroy *)

MaxOutbox == 2

\* Community.dispersy_enable_candidate_walker and its override in HardKilledCommunity
dispersy_enable_candidate_walker_always(cls) == TRUE
dispersy_enable_candidate_walker(cls) == cls # "HardKilledCommunity"

dispersy_auto_download_master_member == TRUE

\* the community messages: those of the subclass, none for HardKilledCommunity
CommunityMessages == {MetaFull, MetaDirect}
initiate_meta_messages(cls) ==
    IF cls = "HardKilledCommunity" THEN {} ELSE CommunityMessages

\* the dispersy-destroy-community packets: signed by the master member (0)
DestroyName == "dispersy-destroy-community"
DestroyPacket(gt, degree) ==
    [global_time |-> gt, meta |-> DestroyName, member |-> 0, degree |-> degree]
DestroyRow(pk) ==
    [global_time |-> pk.global_time, meta |-> pk.meta, member |-> pk.member,
     undone |-> FALSE, degree |-> pk.degree]
DestroyRows(rows) == {r \in rows : r.meta = DestroyName}

\* Callback.register: the id of the new call, and the call as it is registered
InitialDelay == 2000
NewId(registered) ==
    CHOOSE i \in 1..(Cardinality(registered) + 1) : \A c \in registered : c.id # i
Registered(id) ==
    [id |-> id, call |-> "_download_master_member_identity", attempts |-> 0,
     delay |-> InitialDelay, yielded |-> 0]

\* line 273: is the download of the master member's identity started?
DownloadsMasterMember(cls, master) ==
    /\ ~master.public_key
    /\ dispersy_enable_candidate_walker(cls)
    /\ dispersy_auto_download_master_member

\* what a failed call leaves in `result'
Failure(op, exc) == [op |-> op, kind |-> "raise", exc |-> exc]
Done(op) == [op |-> op, kind |-> "return"]

\* the empty string as a packet
EmptyPacket == [global_time |-> 0, meta |-> "", member |-> 0, degree |-> ""]

\* HardKilledCommunity.__init__, lines 1623-1630: any stored destroy packet (LIMIT 1
\* without ORDER BY), "" when there is none
StoredDestroyPackets(cls, rows) ==
    IF cls # "HardKilledCommunity" THEN {NoneValue}
    ELSE IF DestroyRows(rows) = {} THEN {EmptyPacket}
    ELSE {DestroyPacket(r.global_time, r.degree) : r \in DestroyRows(rows)}

\* cls.__init__(master) on the store, followed by attach_community
Construct(cls, master, rows, registered, op) ==
    /\ classification' = cls
    /\ _master_member' = master
    /\ callback' = IF DownloadsMasterMember(cls, master)
                   THEN registered \cup {Registered(NewId(registered))} ELSE registered
    /\ _pending_callbacks' = IF DownloadsMasterMember(cls, master)
                             THEN <<NewId(registered)>> ELSE <<>>
    /\ _meta_messages' = initiate_meta_messages(cls)
    /\ _global_time' = InitGlobalTime(rows)
    /\ _acceptable_global_time_cache' = InitGlobalTime(rows)
    /\ _acceptable_global_time_deadline' = 0
    /\ _sync_cache' = NoneValue
    /\ \E timeline \in _initialize_timeline(rows) : _timeline' = timeline
    /\ _nrsyncpackets' = 0
    /\ \E pk \in StoredDestroyPackets(cls, rows) : _destroy_community_packet' = pk
    /\ _walked_candidates' = NotStarted
    /\ _stumbled_candidates' = NotStarted
    /\ _walk_candidates' = NotStarted
    /\ _bootstrap_candidates' = NotStarted
    /\ bootstrap_candidates' = bootstrap_candidates
    /\ statistics' = statistics
    /\ _conversions' = Conversions(initiate_conversions)
    /\ attached' = TRUE
    /\ result' = Done(op)

\* the master member as the caller of load_community reads it from the member table
MasterMember == [public_key |-> database.public_key]

\* what __init__ does when the SELECT of line 260 finds no row
NotFound_registers_first(op) ==
    /\ callback' = callback \cup {Registered(NewId(callback))}
    /\ result' = Failure(op, "ValueError")
    /\ UNCHANGED <<classification, attached, _master_member, _pending_callbacks,
                   _destroy_community_packet, _timeline, timeVars, clockVars,
                   _meta_messages, syncVars,
                   iterVars>>
NotFound(op) ==
    /\ result' = Failure(op, "ValueError")
    /\ UNCHANGED <<classification, attached, _master_member, _pending_callbacks, callback,
                   _destroy_community_packet, _timeline, timeVars, clockVars,
                   _meta_messages, syncVars,
                   iterVars>>

\* cls.load_community(master): there is no community object yet
load_community(cls) ==
    /\ classification = ""
    /\ IF database.community
       THEN /\ cls = database.classification
            /\ Construct(cls, MasterMember, sync, callback, "load_community")
            /\ UNCHANGED <<calls, now, sync>>
       ELSE NotFound("load_community")
    /\ UNCHANGED <<database, outbox, candidates, capacity, strategy>>

\* Callback.unregister for every id of the list in turn
RECURSIVE Unregister(_, _)
Unregister(ids, registered) ==
    IF ids = <<>> THEN registered
    ELSE Unregister(Tail(ids), {c \in registered : c.id # ids[1]})

Unload_keeps_callbacks(op) ==
    /\ callback' = callback
    /\ _pending_callbacks' = <<>>
    /\ attached' = FALSE
    /\ classification' = ""
    /\ result' = Done(op)
Unload(op) ==
    /\ callback' = Unregister(_pending_callbacks, callback)
    /\ _pending_callbacks' = <<>>
    /\ attached' = FALSE
    /\ classification' = ""
    /\ result' = Done(op)

\* Community.unload_community
unload_community ==
    /\ classification # ""
    /\ Unload("unload_community")
    /\ UNCHANGED <<database, _master_member, _destroy_community_packet, outbox,
                   _timeline, timeVars, clockVars, candidates, configVars, syncVars,
                   iterVars>>

\* Community.dispersy_cleanup_community(message): the class the community is
\* reclassified into
dispersy_cleanup_community(degree) ==
    IF degree = "soft-kill"
    THEN Failure("dispersy_cleanup_community", "NotImplementedError")
    ELSE [op |-> "dispersy_cleanup_community", kind |-> "return",
          value |-> "HardKilledCommunity"]

\* the rows a hard-kill keeps: the destroy messages
KeptRows(rows) == DestroyRows(rows)

\* a destroy message as dispersy_store reads it
DestroyMessage(pk, candidate) ==
    [global_time |-> pk.global_time, meta |-> pk.meta, member |-> pk.member,
     priority |-> 192, candidate |-> candidate]

\* Dispersy receives dispersy-destroy-community: it stores the packet, asks the
\* community for its new class and, when it gets one, reclassifies the community:
\* unload_community, then new_class.load_community(master)
on_destroy_community(gt, degree) ==
    /\ attached
    /\ classification = "Community"
    /\ ~\E r \in sync : r.member = 0 /\ r.global_time = gt
    /\ IF dispersy_cleanup_community(degree).kind = "raise"
       THEN /\ sync' = sync \cup {DestroyRow(DestroyPacket(gt, degree))}
            /\ _global_time' = Max2(_global_time, gt)
            /\ _sync_cache' = dispersy_store(_sync_cache,
                                             <<DestroyMessage(DestroyPacket(gt, degree), 0)>>)
            /\ result' = dispersy_cleanup_community(degree)
            /\ UNCHANGED <<lifeVars, _acceptable_global_time_cache,
                           _acceptable_global_time_deadline, _meta_messages,
                           _nrsyncpackets>>
       ELSE /\ sync' = KeptRows(sync \cup {DestroyRow(DestroyPacket(gt, degree))})
            /\ database' = [database EXCEPT
                              !.classification = dispersy_cleanup_community(degree).value]
            /\ Construct(dispersy_cleanup_community(degree).value, _master_member, sync',
                         Unregister(_pending_callbacks, callback), "on_destroy_community")
            /\ UNCHANGED outbox
    /\ UNCHANGED <<calls, now, candidates, capacity, strategy>>

\* HardKilledCommunity.dispersy_on_introduction_request(messages); requesters is
\* [message.candidate for message in messages]
dispersy_on_introduction_request(requesters) ==
    /\ attached
    /\ classification = "HardKilledCommunity"
    /\ Len(outbox) < MaxOutbox
    /\ outbox' = Append(outbox, [candidates |-> requesters,
                                 packets |-> <<_destroy_community_packet>>])
    /\ result' = Done("dispersy_on_introduction_request")
    /\ UNCHANGED <<classification, attached, database, _master_member, _pending_callbacks,
                   callback, _destroy_community_packet, _timeline, timeVars, clockVars,
                   candidates, configVars, syncVars,
                   iterVars>>

\* the packet of a walker step
IntroductionRequest ==
    [global_time |-> global_time, meta |-> "dispersy-introduction-request", member |-> 0,
     degree |-> ""]

\* Dispersy calls dispersy_take_step of every attached community whose candidate
\* walker is enabled: an introduction request goes to a candidate
dispersy_take_step(candidate) ==
    /\ attached
    /\ dispersy_enable_candidate_walker(classification)
    /\ Len(outbox) < MaxOutbox
    /\ outbox' = Append(outbox, [candidates |-> <<candidate>>,
                                 packets |-> <<IntroductionRequest>>])
    /\ result' = Done("dispersy_take_step")
    /\ UNCHANGED <<classification, attached, database, _master_member, _pending_callbacks,
                   callback, _destroy_community_packet, _timeline, timeVars, clockVars,
                   candidates, configVars, syncVars,
                   iterVars>>

-----------------------------------------------------------------------------
(* Specification of the destruction of a community *)

Degrees == {"soft-kill", "hard-kill"}

\* the requesters of a batch of introduction requests
RequesterLists == {<<c>> : c \in Helpers} \cup {<<1, 2>>}

KillPackets == {[global_time |-> g, meta |-> MetaFull.name, member |-> 1] : g \in 1..MaxGT}

InitKill == InitCommunity({}, CommunityMessages, Capacity, "largest", IdlePool, HistoryOff)

NextKill ==
    \/ \E g \in 1..MaxGT, degree \in Degrees : on_destroy_community(g, degree)
    \/ \E requesters \in RequesterLists : dispersy_on_introduction_request(requesters)
    \/ \E c \in Helpers : dispersy_take_step(c)
    \/ \E pk \in KillPackets : attached /\ store_messages(<< <<pk, 0>> >>)
    \/ unload_community
    \/ \E cls \in {"Community", "HardKilledCommunity"} : load_community(cls)

SpecKill == InitKill /\ [][NextKill]_vars

-----------------------------------------------------------------------------
(* Claims about the destruction of a community *)

\* the destroy packets of the store
StoredDestroy == {DestroyPacket(r.global_time, r.degree) : r \in DestroyRows(sync)}

\* what a step of a hard-killed community may send: one call of endpoint.send with
\* one packet, a stored dispersy-destroy-community packet
C12_OnlyDestroyPacket ==
    outbox' # outbox =>
        /\ Len(outbox') = Len(outbox) + 1
        /\ SubSeq(outbox', 1, Len(outbox)) = outbox
        /\ \E pk \in StoredDestroy : outbox'[Len(outbox')].packets = <<pk>>

\* every batch of introduction requests is answered: the packet goes to the
\* candidates of the requests, in their order
C12_Answered ==
    \A requesters \in RequesterLists :
        dispersy_on_introduction_request(requesters) =>
            /\ outbox'[Len(outbox')].candidates = requesters
            /\ outbox'[Len(outbox')].packets = <<_destroy_community_packet>>

C12_Step ==
    (classification = "HardKilledCommunity" /\ classification' = "HardKilledCommunity") =>
        /\ C12_OnlyDestroyPacket
        /\ C12_Answered
        /\ \A c \in Helpers : ~dispersy_take_step(c)
        /\ _meta_messages = {}
        /\ callback' = callback

\* C12: a community reclassified to HardKilledCommunity answers every
\* dispersy-introduction-request by sending the stored dispersy-destroy-community
\* packet, and only that packet, to each requesting candidate; it takes no walker
\* step, has no community messages and sends nothing else.
C12_HardKilledAnswersWithDestroyPacket == [][C12_Step]_vars

C12_Witness ==
    /\ classification = "HardKilledCommunity"
    /\ Len(outbox) > 0
    /\ outbox[Len(outbox)].candidates = <<1, 2>>
    /\ outbox[Len(outbox)].packets = <<_destroy_community_packet>>
    /\ _destroy_community_packet \in StoredDestroy
    /\ result.op = "dispersy_on_introduction_request"

\* after a soft-kill at global time g nothing above g enters the store
C13_Frozen ==
    \A d \in {r \in DestroyRows(sync) : r.degree = "soft-kill"} :
        \A r \in sync' \ sync : r.global_time <= d.global_time

C13_Step ==
    /\ C13_Frozen
    /\ \A g \in 1..MaxGT :
          on_destroy_community(g, "hard-kill") => classification' = "HardKilledCommunity"

\* C13: handling dispersy-destroy-community with degree soft-kill freezes the
\* community at the global time of the destroy message (nothing higher is accepted
\* afterwards); with degree hard-kill it reclassifies the community to
\* HardKilledCommunity.
C13_DestroyDegrees == [][C13_Step]_vars

-----------------------------------------------------------------------------
(* The download of the master member's identity *)

MaxAttempts == 56
MaxDelay == 300000

\* delay * 1.1, in milliseconds
TimesOnePointOne(delay) == (delay * 11) \div 10

\* min(300.0, delay * 1.1)
NextDelay_uncapped(delay) == TimesOnePointOne(delay)
NextDelay(delay) == Min2(MaxDelay, TimesOnePointOne(delay))

\* dispersy_yield_random_candidates: the active candidates, in any order
RandomCandidates == {c \in DOMAIN candidates : candidates[c].active}

\* islice(self.dispersy_yield_random_candidates(), 1): the first of them, if any
FirstRandomCandidates == IF RandomCandidates = {} THEN {0} ELSE RandomCandidates

\* the dispersy-missing-identity request for the master member
MissingIdentity ==
    [global_time |-> global_time, meta |-> "dispersy-missing-identity", member |-> 0,
     degree |-> ""]

\* line 363: create_missing_identity when there is a candidate
Requested(candidate) ==
    IF candidate # 0
    THEN Append(outbox, [candidates |-> <<candidate>>, packets |-> <<MissingIdentity>>])
    ELSE outbox

\* the generator after `yield delay'
Yielded(c) ==
    [c EXCEPT !.attempts = @ + 1, !.yielded = c.delay, !.delay = NextDelay(c.delay)]

\* Callback resumes the registered generator c: one attempt of the loop of
\* _download_master_member_identity, up to its yield or its end
_download_master_member_identity(c) ==
    /\ c \in callback
    /\ c.attempts < MaxAttempts
    /\ IF _master_member.public_key
       THEN /\ callback' = callback \ {c}
            /\ UNCHANGED <<_master_member, outbox>>
       ELSE IF database.public_key
       THEN /\ _master_member' = [public_key |-> TRUE]
            /\ callback' = callback \ {c}
            /\ UNCHANGED outbox
       ELSE /\ \E candidate \in FirstRandomCandidates :
                  /\ candidate # 0 => Len(outbox) < MaxOutbox
                  /\ outbox' = Requested(candidate)
            /\ callback' = (callback \ {c}) \cup {Yielded(c)}
            /\ UNCHANGED _master_member
    /\ result' = Done("_download_master_member_identity")
    /\ UNCHANGED <<classification, attached, database, _pending_callbacks,
                   _destroy_community_packet, _timeline, timeVars, clockVars, candidates,
                   configVars, syncVars,
                   iterVars>>

\* Dispersy stores the dispersy-identity of the master member: its public key is in
\* the member table from now on
store_master_identity ==
    /\ ~database.public_key
    /\ database' = [database EXCEPT !.public_key = TRUE]
    /\ result' = Nothing
    /\ UNCHANGED <<classification, attached, _master_member, _pending_callbacks, callback,
                   _destroy_community_packet, outbox, _timeline, timeVars, clockVars,
                   candidates, configVars, syncVars,
                   iterVars>>

-----------------------------------------------------------------------------
(* Specification of loading and unloading *)

\* one active candidate
OnePool == [c \in SockAddrs |-> IF c = 1 THEN [active |-> TRUE, global_time |-> 0]
                                         ELSE Inactive]

\* before load_community: the store may or may not hold the community, of either
\* class, and the public key of its master member
InitLoad ==
    \E cands \in {IdlePool, OnePool}, found \in BOOLEAN, key \in BOOLEAN,
       cls \in {"Community", "HardKilledCommunity"} :
        /\ InitAttributes({}, {}, Capacity, "largest", cands, HistoryOff)
        /\ classification = ""
        /\ attached = FALSE
        /\ database = [community |-> found, public_key |-> key, classification |-> cls]
        /\ _master_member = [public_key |-> key]
        /\ _pending_callbacks = <<>>
        /\ callback = {}
        /\ _destroy_community_packet = NoneValue
        /\ outbox = <<>>
        /\ _timeline = <<>>
        /\ _walked_candidates = NotStarted
        /\ _stumbled_candidates = NotStarted
        /\ _walk_candidates = NotStarted
        /\ _bootstrap_candidates = NotStarted
        /\ bootstrap_candidates = FreshBootstrap
        /\ statistics = Statistics(candidates)
        /\ _conversions = Conversions(initiate_conversions)

NextLoad ==
    \/ \E cls \in {"Community", "HardKilledCommunity"} : load_community(cls)
    \/ unload_community
    \/ \E c \in callback : _download_master_member_identity(c)
    \/ store_master_identity

SpecLoad == InitLoad /\ [][NextLoad]_vars

-----------------------------------------------------------------------------
(* Claims about loading and unloading *)

C14_Step ==
    unload_community =>
        /\ \A i \in 1..Len(_pending_callbacks) :
              ~\E c \in callback' : c.id = _pending_callbacks[i]
        /\ _pending_callbacks' = <<>>
        /\ ~attached'

\* no registered call belongs to an unloaded community, so none is resumed
C14_NoneResumed ==
    classification = "" =>
        /\ callback = {}
        /\ \A c \in callback : ~_download_master_member_identity(c)

C15_Step ==
    \A cls \in {"Community", "HardKilledCommunity"} :
        (~database.community /\ load_community(cls)) =>
            /\ result' = Failure("load_community", "ValueError")
            /\ ~attached'
            /\ classification' = ""
            /\ callback' = {}

\* C15: load_community of a community whose master member has no row in the
\* community table raises an error to its caller; the community is not attached
\* and no background task stays registered.
C15_LoadFailureLeavesNothing == [][C15_Step]_vars

C15_Witness ==
    /\ result = Failure("load_community", "ValueError")
    /\ ~database.community
    /\ ~_master_member.public_key
    /\ ~attached
    /\ callback = {}

\* what the generator yields at an attempt, told from what it yielded before
C18_Expected(c) == IF c.attempts = 0 THEN 2000 ELSE Min2(300000, (c.yielded * 11) \div 10)

C18_KeyAvailable == _master_member.public_key \/ database.public_key

\* an attempt sends nothing or one dispersy-missing-identity request to one candidate
C18_AtMostOneRequest ==
    \/ outbox' = outbox
    \/ /\ Len(outbox') = Len(outbox) + 1
       /\ SubSeq(outbox', 1, Len(outbox)) = outbox
       /\ Len(outbox'[Len(outbox')].candidates) = 1
       /\ outbox'[Len(outbox')].packets = <<MissingIdentity>>

C18_Attempt(c) ==
    IF C18_KeyAvailable
    THEN /\ ~\E x \in callback' : x.id = c.id
         /\ outbox' = outbox
         /\ _master_member'.public_key
    ELSE /\ \E x \in callback' :
               /\ x.id = c.id
               /\ x.attempts = c.attempts + 1
               /\ x.yielded = C18_Expected(c)
         /\ C18_AtMostOneRequest

C18_Started ==
    \A x \in callback' \ callback :
        x.attempts = 0 =>
            /\ ~_master_member'.public_key
            /\ classification' = "Community"
            /\ x.id \in {_pending_callbacks'[i] : i \in 1..Len(_pending_callbacks')}

C18_Step ==
    /\ C18_Started
    /\ \A c \in callback : _download_master_member_identity(c) => C18_Attempt(c)

\* C18: the download of the master member's identity is started only when the
\* master member has no public key and the candidate walker is enabled; it waits
\* 2 s after the first attempt and min(300, 1.1 x the previous wait) after every
\* later one, sends at most one missing-identity request per attempt and stops at
\* the first attempt at which the public key is available.
C18_DownloadBackoff == [][C18_Step]_vars

C18_Witness ==
    \E c \in callback :
        /\ c.yielded = MaxDelay
        /\ c.attempts > 50
        /\ ~_master_member.public_key

-----------------------------------------------------------------------------
(* create_community and the permissions it grants *)

MaxMessages == 2

\* a meta message with its resolution policy and its undo callback
Meta(name, resolution, issync, undo_callback) ==
    [name |-> name, sync |-> issync, priority |-> 128, resolution |-> resolution,
     undo_callback |-> undo_callback]

\* messages of Dispersy itself: none of them has an undo callback
DispersyMessages ==
    { Meta("dispersy-authorize", "PublicResolution", TRUE, FALSE),
      Meta("dispersy-revoke", "PublicResolution", TRUE, FALSE),
      Meta("dispersy-undo-own", "PublicResolution", TRUE, FALSE),
      Meta("dispersy-undo-other", "LinearResolution", TRUE, FALSE),
      Meta("dispersy-dynamic-settings", "LinearResolution", TRUE, FALSE),
      Meta("dispersy-introduction-request", "PublicResolution", FALSE, FALSE) }

Resolutions == {"PublicResolution", "LinearResolution", "DynamicResolution"}

\* the names of the community messages, by resolution and by the other policies
PublicNames == <<"public-sync-undoable", "public-sync", "public-direct-undoable", "public-direct">>
LinearNames == <<"linear-sync-undoable", "linear-sync", "linear-direct-undoable", "linear-direct">>
DynamicNames ==
    <<"dynamic-sync-undoable", "dynamic-sync", "dynamic-direct-undoable", "dynamic-direct">>
NameOf(resolution, issync, undo_callback) ==
    (IF resolution = "PublicResolution" THEN PublicNames
     ELSE IF resolution = "LinearResolution" THEN LinearNames
     ELSE DynamicNames)[(IF issync THEN 0 ELSE 2) + (IF undo_callback THEN 1 ELSE 2)]

\* messages a community may define: every combination of the policies
MessagePool ==
    { Meta(NameOf(r, y, u), r, y, u) : r \in Resolutions, y \in BOOLEAN, u \in BOOLEAN }

\* the catalogues of the model: Dispersy's messages or none of them, with up to
\* MaxMessages messages of the community
Catalogues ==
    { own \cup M : own \in {{}, DispersyMessages},
                   M \in {X \in SUBSET MessagePool : Cardinality(X) <= MaxMessages} }

\* lines 117 and 131: the names without undo permission
NoUndoNames ==
    {"dispersy-authorize", "dispersy-revoke", "dispersy-undo-own", "dispersy-undo-other"}

Undoable(message) == message.undo_callback /\ message.name \notin NoUndoNames

\* lines 109-133: what is granted for one meta message
LinearPermissions(message) ==
    {"authorize", "revoke", "permit"} \cup (IF Undoable(message) THEN {"undo"} ELSE {})
PublicPermissions_with_permit(message) ==
    IF Undoable(message) THEN {"authorize", "revoke", "undo", "permit"} ELSE {}
PublicPermissions(message) ==
    IF Undoable(message) THEN {"authorize", "revoke", "undo"} ELSE {}
Permissions(message) ==
    IF message.resolution \in {"LinearResolution", "DynamicResolution"}
    THEN LinearPermissions(message)
    ELSE IF message.sync /\ message.resolution = "PublicResolution"
    THEN PublicPermissions(message)
    ELSE {}

\* lines 106-133: permission_triplets, as a set
permission_triplets(my_member, messages) ==
    UNION { { <<my_member, message.name, allowed>> : allowed \in Permissions(message) } :
            message \in messages }

\* line 133: the calls of create_dispersy_authorize
AuthorizeCalls(triplets) ==
    IF triplets # {}
    THEN << [permission_triplets |-> triplets, sign_with_master |-> TRUE, forward |-> FALSE] >>
    ELSE << >>

\* the messages create_community creates: the identity of the master member, my
\* identity and, with triplets, the authorize message, at the global times 1, 2, 3
CreatedRows(my_member, triplets) ==
    { [global_time |-> 1, meta |-> "dispersy-identity", member |-> 0, undone |-> FALSE],
      [global_time |-> 2, meta |-> "dispersy-identity", member |-> my_member,
       undone |-> FALSE] }
    \cup (IF triplets # {}
          THEN {TimelineRow("dispersy-authorize", 0, 3,
                            Encode("dispersy-authorize", 0, 3, GoodSignature))}
          ELSE {})

\* what on_authorize gets from create_dispersy_authorize (update = True)
Authorized(triplets) ==
    IF triplets # {}
    THEN << [message |-> Decoded(Encode("dispersy-authorize", 0, 3, GoodSignature)),
             initializing |-> FALSE] >>
    ELSE << >>

\* cls.create_community(my_member) of a class whose catalogue is _meta_messages: a
\* master member with its keys, the row of the community table, load_community,
\* the two identities and the authorize message
create_community(cls, my_member) ==
    /\ classification = ""
    /\ ~database.community
    /\ sync = {}
    /\ database' = [community |-> TRUE, public_key |-> TRUE, classification |-> cls]
    /\ classification' = cls
    /\ _master_member' = [public_key |-> TRUE]
    /\ attached' = TRUE
    /\ _pending_callbacks' = <<>>
    /\ _destroy_community_packet' = NoneValue
    /\ sync' = CreatedRows(my_member, permission_triplets(my_member, _meta_messages))
    /\ _global_time' = InitGlobalTime(sync')
    /\ _acceptable_global_time_cache' = 0
    /\ _acceptable_global_time_deadline' = 0
    /\ _sync_cache' = NoneValue
    /\ _nrsyncpackets' = 0
    /\ _timeline' = Authorized(permission_triplets(my_member, _meta_messages))
    /\ _walked_candidates' = NotStarted
    /\ _stumbled_candidates' = NotStarted
    /\ _walk_candidates' = NotStarted
    /\ _bootstrap_candidates' = NotStarted
    /\ bootstrap_candidates' = bootstrap_candidates
    /\ statistics' = statistics
    /\ _conversions' = Conversions(initiate_conversions)
    /\ result' = [op |-> "create_community", kind |-> "return", my_member |-> my_member,
                  authorize |-> AuthorizeCalls(permission_triplets(my_member,
                                                                   _meta_messages))]
    /\ UNCHANGED <<callback, outbox, calls, now, candidates, configVars>>

-----------------------------------------------------------------------------
(* Specification of create_community *)

InitCreate ==
    \E catalogue \in Catalogues :
        /\ InitAttributes({}, catalogue, Capacity, "largest", IdlePool, HistoryOff)
        /\ classification = ""
        /\ attached = FALSE
        /\ database = [community |-> FALSE, public_key |-> FALSE, classification |-> ""]
        /\ _master_member = [public_key |-> FALSE]
        /\ _pending_callbacks = <<>>
        /\ callback = {}
        /\ _destroy_community_packet = NoneValue
        /\ outbox = <<>>
        /\ _timeline = <<>>
        /\ _walked_candidates = NotStarted
        /\ _stumbled_candidates = NotStarted
        /\ _walk_candidates = NotStarted
        /\ _bootstrap_candidates = NotStarted
        /\ bootstrap_candidates = FreshBootstrap
        /\ statistics = Statistics(candidates)
        /\ _conversions = Conversions(initiate_conversions)

NextCreate ==
    \/ \E my_member \in 1..2 : create_community("Community", my_member)
    \/ unload_community

SpecCreate == InitCreate /\ [][NextCreate]_vars

\* the permissions the authorize calls of the last create_community grant on a name
C19_Granted(name) ==
    { t[3] : t \in { x \in UNION { result.authorize[i].permission_triplets :
                                     i \in 1..Len(result.authorize) } : x[2] = name } }

C19_Created == result.op = "create_community"

C19_Expected(message) ==
    /\ message.resolution \in {"LinearResolution", "DynamicResolution"} =>
          {"permit", "authorize", "revoke"} \subseteq C19_Granted(message.name)
    /\ (message.resolution = "PublicResolution" /\ message.sync /\ message.undo_callback) =>
          C19_Granted(message.name) = {"authorize", "revoke", "undo"}
    /\ message.name \in NoUndoNames => "undo" \notin C19_Granted(message.name)

-----------------------------------------------------------------------------
(* Specification of the replay of the timeline at load *)

MaxRows == 3

\* a well-formed packet with a signature that verifies or one that does not
Signed(name, member, gt) == TimelineRow(name, member, gt, Encode(name, member, gt, GoodSignature))
Forged(name, member, gt) == TimelineRow(name, member, gt, Encode(name, member, gt, 0))
\* a packet cut off after its second byte
Truncated(name, member, gt) ==
    TimelineRow(name, member, gt, SubSeq(Encode(name, member, gt, GoodSignature), 1, 2))

StoredPackets ==
    { Signed("dispersy-authorize", 1, 1), Signed("dispersy-revoke", 2, 1),
      Signed("dispersy-dynamic-settings", 1, 2), Signed("dispersy-authorize", 2, 2),
      Signed("dispersy-authorize", 3, 1),
      Forged("dispersy-authorize", 3, 2), Forged("dispersy-revoke", 1, 2),
      Truncated("dispersy-revoke", 3, 1), Truncated("dispersy-authorize", 2, 1) }

\* UNIQUE(community, member, global_time)
UniqueRows(rows) ==
    \A r, q \in rows : (r.member = q.member /\ r.global_time = q.global_time) => r = q

InitReplay ==
    \E rows \in {X \in SUBSET StoredPackets : Cardinality(X) <= MaxRows /\ UniqueRows(X)} :
        /\ InitAttributes(rows, {}, Capacity, "largest", IdlePool, HistoryOff)
        /\ classification = ""
        /\ attached = FALSE
        /\ database = [community |-> TRUE, public_key |-> TRUE, classification |-> "Community"]
        /\ _master_member = [public_key |-> TRUE]
        /\ _pending_callbacks = <<>>
        /\ callback = {}
        /\ _destroy_community_packet = NoneValue
        /\ outbox = <<>>
        /\ _timeline = <<>>
        /\ _walked_candidates = NotStarted
        /\ _stumbled_candidates = NotStarted
        /\ _walk_candidates = NotStarted
        /\ _bootstrap_candidates = NotStarted
        /\ bootstrap_candidates = FreshBootstrap
        /\ statistics = Statistics(candidates)
        /\ _conversions = Conversions(initiate_conversions)

NextReplay ==
    \/ load_community("Community")
    \/ unload_community

SpecReplay == InitReplay /\ [][NextReplay]_vars

\* the stored packet of a handled message
C16_PacketOf(entry) ==
    [global_time |-> entry.message.global_time,
     packet |-> <<MessageIds[TimelineIndex(entry.message.name)], entry.message.member,
                  entry.message.global_time, entry.message.signature>>]

\* (global_time, packet) strictly ascending along the timeline
C16_Ascending(timeline) ==
    \A i, j \in 1..Len(timeline) :
        i < j =>
            \/ C16_PacketOf(timeline[i]).global_time < C16_PacketOf(timeline[j]).global_time
            \/ /\ C16_PacketOf(timeline[i]).global_time = C16_PacketOf(timeline[j]).global_time
               /\ BytesLess(C16_PacketOf(timeline[i]).packet, C16_PacketOf(timeline[j]).packet)

\* every handled message is a stored packet and was handled with initializing = True
C16_FromStore(timeline) ==
    \A i \in 1..Len(timeline) :
        /\ timeline[i].initializing
        /\ \E r \in TimelineRows(sync) : r.packet = C16_PacketOf(timeline[i]).packet

C16_Step ==
    load_community("Community") =>
        /\ C16_Ascending(_timeline')
        /\ C16_FromStore(_timeline')
        /\ \A r \in TimelineRows(sync) :
              WellFormed(r.packet) =>
                  \E i \in 1..Len(_timeline') : C16_PacketOf(_timeline'[i]).packet = r.packet

\* C16: at load the stored dispersy-authorize, dispersy-revoke and
\* dispersy-dynamic-settings packets are handed to their handlers one at a time,
\* with initializing = True, in ascending (global_time, packet) order: the order
\* depends on the set of packets only.
C16_ReplayOrder == [][C16_Step]_vars

C16_Witness ==
    /\ result.op = "load_community"
    /\ Len(_timeline) = 3
    /\ _timeline[1].message.global_time = 1
    /\ _timeline[2].message.global_time = 1
    /\ _timeline[1].message.name = "dispersy-revoke"
    /\ _timeline[2].message.name = "dispersy-authorize"
    /\ _timeline[3].message.global_time = 2

\* a packet that is malformed or whose signature does not verify
C17_Bad(r) == ~WellFormed(r.packet) \/ r.packet[4] # GoodSignature

C17_Step ==
    load_community("Community") =>
        /\ result'.kind = "return"
        /\ \A r \in TimelineRows(sync) :
              C17_Bad(r) <=>
                  ~\E i \in 1..Len(_timeline') : C16_PacketOf(_timeline'[i]).packet = r.packet
        /\ C16_Ascending(_timeline')

\* C17: during the replay a stored packet that is malformed or improperly signed
\* is dropped and not applied to the timeline, and every other stored packet is
\* still processed, in order.
C17_BadPacketsDropped == [][C17_Step]_vars


-----------------------------------------------------------------------------
(* The candidates to introduce: _iter_category, _iter_a_or_b and
   dispersy_yield_introduce_candidates *)

NumIntroduce == 3

\* self._candidates.keys(): the socket addresses, in the order of the dictionary
RECURSIVE KeysOf(_)
Lowest(S) == CHOOSE x \in S : \A y \in S : x <= y
KeysOf(S) == IF S = {} THEN <<>> ELSE <<Lowest(S)>> \o KeysOf(S \ {Lowest(S)})
Keys == KeysOf(DOMAIN candidates)

\* keys.index(key_value), counted from 0
IndexOf(key_value) == CHOOSE i \in 0..(Len(Keys) - 1) : Keys[i + 1] = key_value

\* line 1308: the candidate is in the community, active and of the category
InCategory(c, category) == candidates[c].active /\ candidates[c].category = category

\* lines 1312-1316: where the inner loop goes on after a yield
ResumeIndex(it) ==
    (IF it.key_value \in DOMAIN candidates THEN IndexOf(it.key_value) ELSE it.key_index) + 1

\* the indices from key_index on whose candidate the inner loop would yield
Yieldable(category, key_index) ==
    {i \in key_index..(Len(Keys) - 1) : InCategory(Keys[i + 1], category)}

\* the generator after `yield candidate' at index i
YieldedAt(i) == [at |-> "yielded", key_value |-> Keys[i + 1], key_index |-> i]

\* the inner loop from key_index to its next yield; when it ends (IndexError)
\* after a yield of this pass (no_result is False) the outer loop starts over,
\* otherwise None is yielded
RECURSIVE InnerLoop(_, _, _)
\* lines 1322-1323 without the test of no_result: None after every pass
InnerLoop_none_after_every_pass(category, key_index, no_result) ==
    IF Yieldable(category, key_index) # {}
    THEN YieldedAt(Lowest(Yieldable(category, key_index)))
    ELSE NotStarted

InnerLoop(category, key_index, no_result) ==
    IF Yieldable(category, key_index) # {}
    THEN YieldedAt(Lowest(Yieldable(category, key_index)))
    ELSE IF no_result THEN NotStarted
    ELSE InnerLoop(category, 0, TRUE)

\* it.next() of a generator of _iter_category(category): the generator afterwards
_iter_category(category, it) ==
    IF it.at = "yielded"
    THEN InnerLoop(category, ResumeIndex(it), FALSE)
    ELSE InnerLoop(category, 0, TRUE)

\* what the generator yielded: a candidate, or None (0)
ValueOf(it) == IF it.at = "yielded" THEN it.key_value ELSE 0

\* lines 1375-1377 after a.next(): the other generator is asked when the result is
\* None or prev_result
OrOther(first, other, category, prev_result) ==
    IF ValueOf(first) = 0 \/ ValueOf(first) = prev_result
    THEN [result |-> ValueOf(_iter_category(category, other)), first |-> first,
          other |-> _iter_category(category, other)]
    ELSE [result |-> ValueOf(first), first |-> first, other |-> other]

\* what _iter_a_or_b returns, with the two generators afterwards
AOrB(outcome) == [result |-> outcome.result, a |-> outcome.first, b |-> outcome.other]
BOrA(outcome) == [result |-> outcome.result, a |-> outcome.other, b |-> outcome.first]

\* _iter_a_or_b(self._walked_candidates, self._stumbled_candidates, prev_result);
\* low is random() <= .5
_iter_a_or_b(a, b, prev_result, low) ==
    IF low
    THEN AOrB(OrOther(_iter_category("walk", a), b, "stumble", prev_result))
    ELSE BOrA(OrOther(_iter_category("stumble", b), a, "walk", prev_result))

\* the generator of dispersy_yield_introduce_candidates(candidate)
Generator(kind, value, candidate, prev_result, iterations) ==
    [op |-> "dispersy_yield_introduce_candidates", kind |-> kind, value |-> value,
     candidate |-> candidate, prev_result |-> prev_result, iterations |-> iterations]

\* lines 1408-1415: one pass of the loop on the result of _iter_a_or_b
LoopBody_yields_requester(generator, found, iterations) ==
    IF generator.prev_result = found
    THEN Generator("yield", 0, generator.candidate, generator.prev_result, iterations)
    ELSE Generator("yield", found, generator.candidate, found, iterations)
LoopBody(generator, found, iterations) ==
    IF generator.prev_result = found
    THEN Generator("yield", 0, generator.candidate, generator.prev_result, iterations)
    ELSE IF found = generator.candidate
    THEN Generator("continue", 0, generator.candidate, found, iterations + 1)
    ELSE Generator("yield", found, generator.candidate, found, iterations)

\* the passes of the loop made since the generator was resumed
Iterations == IF result.kind = "continue" THEN result.iterations ELSE 0

\* dispersy_yield_introduce_candidates(candidate): a new generator
dispersy_yield_introduce_candidates(candidate) ==
    /\ attached
    /\ result.kind # "continue"
    /\ result' = Generator("created", 0, candidate, 0, 0)
    /\ UNCHANGED <<timeVars, clockVars, candidates, configVars, syncVars, lifeVars>>

\* one pass of the loop of the generator: from its creation, from its last yield
\* or from its last continue
introduce_loop(low) ==
    /\ result.op = "dispersy_yield_introduce_candidates"
    /\ result' = LoopBody(result,
                          _iter_a_or_b(_walked_candidates, _stumbled_candidates,
                                       result.prev_result, low).result,
                          Iterations)
    /\ _walked_candidates' = _iter_a_or_b(_walked_candidates, _stumbled_candidates,
                                          result.prev_result, low).a
    /\ _stumbled_candidates' = _iter_a_or_b(_walked_candidates, _stumbled_candidates,
                                            result.prev_result, low).b
    /\ UNCHANGED <<classification, attached, database, _master_member, _pending_callbacks,
                   callback, _destroy_community_packet, outbox, _timeline, timeVars,
                   clockVars, candidates, configVars, syncVars, _walk_candidates,
                   _bootstrap_candidates, bootstrap_candidates, statistics, _conversions>>

\* between two calls the category of a candidate changes
set_category(c, category) ==
    /\ result.kind # "continue"
    /\ c \in DOMAIN candidates
    /\ candidates[c].category # category
    /\ candidates' = [candidates EXCEPT ![c].category = category]
    /\ UNCHANGED <<timeVars, clockVars, configVars, syncVars, lifeVars, result>>

\* between two calls a candidate is removed from self._candidates
remove_candidate(c) ==
    /\ result.kind # "continue"
    /\ c \in DOMAIN candidates
    /\ candidates' = [x \in DOMAIN candidates \ {c} |-> candidates[x]]
    /\ UNCHANGED <<timeVars, clockVars, configVars, syncVars, lifeVars, result>>

-----------------------------------------------------------------------------
(* Specification of the candidates to introduce *)

Categories == {"walk", "stumble", "intro"}

IntroducePools ==
    { [c \in 1..NumIntroduce |-> [active |-> TRUE, global_time |-> 0, category |-> k[c]]] :
        k \in [1..NumIntroduce -> Categories] }

InitIntroduce ==
    \E cands \in IntroducePools :
        InitCommunity({}, CommunityMessages, Capacity, "largest", cands, HistoryOff)

NextIntroduce ==
    \/ \E candidate \in 0..NumIntroduce : dispersy_yield_introduce_candidates(candidate)
    \/ \E low \in BOOLEAN : introduce_loop(low)
    \/ \E c \in 1..NumIntroduce, category \in Categories : set_category(c, category)
    \/ \E c \in 1..NumIntroduce : remove_candidate(c)

SpecIntroduce == InitIntroduce /\ [][NextIntroduce]_vars

\* the candidates of category walk or stumble
C20_Eligible ==
    {c \in DOMAIN candidates : candidates[c].active
                               /\ candidates[c].category \in {"walk", "stumble"}}

C20_Step ==
    \A low \in BOOLEAN :
        (candidates' = candidates /\ result'.kind # "created" /\ introduce_loop(low)) =>
            /\ result'.kind \in {"yield", "continue"}
            /\ result'.kind = "yield" =>
                  \/ result'.value = 0
                  \/ /\ result'.value # result.candidate
                     /\ result'.value \in C20_Eligible
            /\ result'.kind = "continue" => result'.iterations <= 1

\* C20: dispersy_yield_introduce_candidates(requester) never yields the requester:
\* every value it yields is None or a candidate other than the requester whose
\* category is walk or stumble when it is selected; and it yields after at most
\* two passes of its loop, also when the requester is the only walk or stumble
\* candidate.
C20_NeverTheRequester == [][C20_Step]_vars

C20_Witness ==
    /\ result.op = "dispersy_yield_introduce_candidates"
    /\ result.kind = "yield"
    /\ result.value = 0
    /\ result.iterations = 1
    /\ result.candidate # 0
    /\ C20_Eligible = {result.candidate}

-----------------------------------------------------------------------------
(* The strategies and _select_and_fix on a store that holds packets when the
   community is constructed *)

\* largest global time of a stored packet
MaxStoredGT == 4

\* the packets the store can hold at construction: syncable texts of one member
\* at the first and the last global time and of two members in between, and a
\* low-priority text
StoredSyncPackets ==
    {[global_time |-> g, meta |-> MetaFull.name, member |-> k] :
        g \in 2..(MaxStoredGT - 1), k \in 1..2}
    \cup {[global_time |-> g, meta |-> MetaFull.name, member |-> 1] : g \in {1, MaxStoredGT}}
    \cup {[global_time |-> 2, meta |-> MetaLow.name, member |-> 3]}

\* bloom.get_capacity(error_rate) of the filters of these communities
BloomCapacities == {1, 2}

\* self.dispersy_sync_bloom_filter_strategy() of a community of the largest
\* strategy, with the pivot from_gbtime drawn
claim_largest(from_gbtime) ==
    /\ strategy = "largest"
    /\ from_gbtime \in Pivots
    /\ _nrsyncpackets' = _dispersy_claim_sync_bloom_filter_largest(from_gbtime).nrsyncpackets
    /\ IF _dispersy_claim_sync_bloom_filter_largest(from_gbtime).reads
       THEN AcceptableRead
       ELSE UNCHANGED <<_acceptable_global_time_cache, _acceptable_global_time_deadline>>
    /\ result' = [op |-> "_dispersy_claim_sync_bloom_filter_largest",
                  pivot |-> from_gbtime,
                  kind |-> _dispersy_claim_sync_bloom_filter_largest(from_gbtime).kind,
                  exc |-> _dispersy_claim_sync_bloom_filter_largest(from_gbtime).exc,
                  value |-> _dispersy_claim_sync_bloom_filter_largest(from_gbtime).value]
    /\ UNCHANGED <<timeVars, now, candidates, configVars, lifeVars, sync, _sync_cache>>

\* self.dispersy_sync_bloom_filter_strategy() of a community of the modulo
\* strategy, with the offset drawn
claim_modulo(offset) ==
    /\ strategy = "modulo"
    /\ offset \in Offsets
    /\ _nrsyncpackets' = _dispersy_claim_sync_bloom_filter_modulo(offset).nrsyncpackets
    /\ AcceptableRead
    /\ result' = [op |-> "_dispersy_claim_sync_bloom_filter_modulo",
                  kind |-> "return",
                  exc |-> "",
                  value |-> _dispersy_claim_sync_bloom_filter_modulo(offset).value]
    /\ UNCHANGED <<timeVars, now, candidates, configVars, lifeVars, sync, _sync_cache>>

\* self._select_and_fix(syncable_messages, gt, to_select, higher)
select_and_fix(gt, to_select, higher) ==
    /\ syncable_messages # {}
    /\ result' = [op |-> "_select_and_fix", global_time |-> gt, to_select |-> to_select,
                  higher |-> higher, kind |-> "return",
                  value |-> _select_and_fix(gt, to_select, higher)]
    /\ UNCHANGED <<timeVars, clockVars, candidates, configVars, lifeVars, syncVars>>

\* the community is constructed on a store of syncable packets, or without a
\* syncable meta message on a store of low-priority texts
InitStrategy ==
    \/ \E rows \in SUBSET StoredSyncPackets, cap \in BloomCapacities,
             strat \in {"largest", "modulo"} :
          InitCommunity({Row(pk, FALSE) : pk \in rows}, {MetaFull, MetaLow, MetaDirect},
                        cap, strat, IdlePool, HistoryOff)
    \/ \E rows \in SUBSET {pk \in StoredSyncPackets : pk.meta = MetaLow.name} :
          InitCommunity({Row(pk, FALSE) : pk \in rows}, {MetaLow, MetaDirect},
                        Capacity, "modulo", IdlePool, HistoryOff)

NextStrategy ==
    \/ \E from_gbtime \in 0..MaxStoredGT : claim_largest(from_gbtime)
    \/ \E offset \in 0..MaxStoredGT : claim_modulo(offset)
    \/ \E gt \in 0..MaxStoredGT, to_select \in BloomCapacities, higher \in BOOLEAN :
          select_and_fix(gt, to_select, higher)
    \/ \E r \in {x \in sync : x.member = 2 /\ x.global_time = 2} : undo(r)

SpecStrategy == InitStrategy /\ [][NextStrategy]_vars

\* the side _select_bloomfilter_range selects above (right) or below (left) the pivot
C21_Side(pivot, right) ==
    _select_bloomfilter_range(IF right THEN pivot - 1 ELSE pivot + 1, capacity, right,
                              acceptable_global_time)

\* range high minus range low of a side
C21_Span(side) == side.range[2] - side.range[1]

\* the side the claim names: the larger span, the right side on a tie
C21_Chosen(pivot) ==
    IF C21_Span(C21_Side(pivot, FALSE)) > C21_Span(C21_Side(pivot, TRUE))
    THEN C21_Side(pivot, FALSE)
    ELSE C21_Side(pivot, TRUE)

C21_Step ==
    ( /\ result'.op = "_dispersy_claim_sync_bloom_filter_largest"
      /\ sync' = sync
      /\ syncable_messages # {}
      /\ result'.pivot > 1
      /\ _nrsyncpackets >= capacity
      /\ claim_largest(result'.pivot) )
    => /\ result'.kind = "return"
       /\ result'.value.time_low =
              Min2(C21_Chosen(result'.pivot).range[1], acceptable_global_time)
       /\ result'.value.time_high =
              Min2(C21_Chosen(result'.pivot).range[2], acceptable_global_time)
       /\ result'.value.bloom_filter.keys =
              {Packet(C21_Chosen(result'.pivot).data[i]) :
                  i \in 1..Len(C21_Chosen(result'.pivot).data)}

\* C21: with a pivot above 1 and a last observed packet count of at least the
\* capacity C, the largest strategy selects up to C packets to the right of the
\* pivot and up to C to the left and returns the side whose span (range high
\* minus range low) is larger, the right side on a tie.
C21_LargerSpanReturned == [][C21_Step]_vars

\* the non-undone syncable rows in the direction _select_and_fix was asked for
C22_Queried(call) ==
    {r \in sync : /\ r.meta \in syncable_messages
                  /\ ~r.undone
                  /\ IF call.higher THEN r.global_time > call.global_time
                                    ELSE r.global_time < call.global_time}

\* the rows of S at most as far from the queried global time as g
C22_UpTo(S, g, higher) ==
    {r \in S : IF higher THEN r.global_time <= g ELSE r.global_time >= g}

\* the global times at which a selection of more than to_select rows is complete
C22_CutOffs(S, call) ==
    {g \in {r.global_time : r \in S} :
        Cardinality(C22_UpTo(S, g, call.higher)) > call.to_select}

\* the cut-off global time: the nearest one to the queried global time
C22_CutOff(S, call) ==
    CHOOSE g \in C22_CutOffs(S, call) :
        \A h \in C22_CutOffs(S, call) : IF call.higher THEN g <= h ELSE g >= h

\* the rows the claim expects: all of them, or those before the cut-off global time
C22_Expected(S, call) ==
    IF Cardinality(S) > call.to_select
    THEN S \ {r \in S : IF call.higher THEN r.global_time >= C22_CutOff(S, call)
                                       ELSE r.global_time <= C22_CutOff(S, call)}
    ELSE S

C22_Rows(data) == {data[i] : i \in 1..Len(data)}

C22_Effect(call, data, fixed) ==
    /\ Len(data) <= call.to_select
    /\ Cardinality(C22_Rows(data)) = Len(data)
    /\ \A i, j \in 1..Len(data) : i < j => data[i].global_time <= data[j].global_time
    /\ fixed = (Cardinality(C22_Queried(call)) > call.to_select)
    /\ C22_Rows(data) = C22_Expected(C22_Queried(call), call)
    /\ \A r \in sync :
          ( /\ r.meta \in syncable_messages /\ ~r.undone
            /\ \E i \in 1..Len(data) : data[i].global_time = r.global_time )
          => r \in C22_Rows(data)

C22_Step ==
    ( /\ result'.op = "_select_and_fix"
      /\ sync' = sync
      /\ select_and_fix(result'.global_time, result'.to_select, result'.higher) )
    => C22_Effect(result', result'.value.data, result'.value.fixed)

\* C22: _select_and_fix returns at most to_select packets in ascending order of
\* global time and never a part of a group of equal global time: with more than
\* to_select packets in the queried direction it drops the whole group at the
\* cut-off global time and reports fixed, otherwise it returns them all and
\* reports not fixed; every non-undone syncable packet whose global time is in
\* the result is in the result.
C22_WholeGroups == [][C22_Step]_vars

\* below the last global time two packets were asked for, the group of two at
\* global time 2 was dropped and one packet is returned, while a low-priority
\* text stayed out
C22_Witness ==
    /\ result.op = "_select_and_fix"
    /\ ~result.higher /\ result.to_select = 2 /\ result.global_time = MaxStoredGT
    /\ result.value.fixed
    /\ Len(result.value.data) = 1
    /\ Cardinality({r \in sync : r.global_time = 2 /\ r.meta = MetaFull.name}) = 2
    /\ \E r \in sync : r.meta = MetaLow.name
    /\ C22_Queried(result) # {}

\* the least m >= 1 with m * capacity >= count: max(1, ceil(count / capacity))
C23_Modulo(count) ==
    CHOOSE m \in 1..(count + 1) :
        /\ m * capacity >= count
        /\ \A k \in 1..(count + 1) : k * capacity >= count => m <= k

\* the non-undone syncable packets
C23_Packets == {Packet(r) : r \in {x \in sync : x.meta \in syncable_messages /\ ~x.undone}}

C23_Effect(t) ==
    /\ t.time_low = 1
    /\ t.time_high = acceptable_global_time
    /\ t.modulo = C23_Modulo(Cardinality(C23_Packets))
    /\ t.offset \in 0..(t.modulo - 1)
    /\ t.bloom_filter.keys =
           {pk \in C23_Packets : (pk.global_time + t.offset) % t.modulo = 0}

C23_Step ==
    ( /\ result'.op = "_dispersy_claim_sync_bloom_filter_modulo"
      /\ sync' = sync
      /\ \E offset \in 0..MaxStoredGT : claim_modulo(offset) )
    => /\ result'.kind = "return"
       /\ C23_Effect(result'.value)
       /\ _nrsyncpackets' = IF syncable_messages = {} THEN _nrsyncpackets
                                                      ELSE Cardinality(C23_Packets)

\* C23: the modulo strategy returns (1, acceptable_global_time, modulo, offset,
\* bloom) with modulo = max(1, ceil(count / C)) for count non-undone syncable
\* packets, 0 <= offset < modulo, and a bloom filter holding exactly the
\* non-undone syncable packets with (global_time + offset) mod modulo = 0.
C23_ModuloTuple == [][C23_Step]_vars

\* seven stored packets of which one is undone and one of low priority, a
\* capacity of 2: modulo 3 and offset 1, the filter holds the packets of global
\* time 2 that are left
C23_Witness ==
    /\ result.op = "_dispersy_claim_sync_bloom_filter_modulo"
    /\ capacity = 2
    /\ Cardinality(sync) = 7
    /\ \E r \in sync : r.undone
    /\ result.value.modulo = 3
    /\ result.value.offset = 1
    /\ \E pk \in result.value.bloom_filter.keys : pk.global_time = 2
    /\ result.value.bloom_filter.keys # C23_Packets
    /\ result.value.time_high = acceptable_global_time

-----------------------------------------------------------------------------
(* Consecutive claims of the sync bloom filter *)

\* a claim that returns leaves a cache without a counted response
C30_ReturnResets ==
    ( /\ result'.op = "dispersy_claim_sync_bloom_filter"
      /\ result'.kind = "return"
      /\ \E h \in Helpers : dispersy_claim_sync_bloom_filter(h) )
    => /\ _sync_cache'.kind = "SyncCache"
       /\ _sync_cache'.responses_received = 0

\* a claim made while the cache is as the last claim left it builds a fresh filter
C30_SecondIsFresh ==
    ( /\ result'.op = "dispersy_claim_sync_bloom_filter"
      /\ _sync_cache.kind = "SyncCache"
      /\ _sync_cache.responses_received = 0
      /\ \E h \in Helpers : dispersy_claim_sync_bloom_filter(h) )
    => /\ result'.path = "fresh"
       /\ result'.kind = "return"
       /\ _sync_cache'.times_used = 0
       /\ CacheTuple(_sync_cache') = result'.value

\* C30: after every return of dispersy_claim_sync_bloom_filter the cache has
\* responses_received = 0; two consecutive claims without a dispersy_store in
\* between never both take the reuse path: the second one builds a fresh filter.
C30_NoTwoReuses == [][C30_ReturnResets /\ C30_SecondIsFresh]_vars

-----------------------------------------------------------------------------
(* Sweeps of the category iterators over a candidate table that changes *)

\* line 1338: the candidate is in the community, active and of one of the categories
InCategories(c, categories) ==
    candidates[c].active /\ candidates[c].category \in categories

\* the indices from key_index on whose candidate the inner loop would yield
YieldableIn(categories, key_index) ==
    {i \in key_index..(Len(Keys) - 1) : InCategories(Keys[i + 1], categories)}

\* the inner loop of _iter_categories from key_index to its next yield
RECURSIVE InnerLoopIn(_, _, _)
InnerLoopIn(categories, key_index, no_result) ==
    IF YieldableIn(categories, key_index) # {}
    THEN YieldedAt(Lowest(YieldableIn(categories, key_index)))
    ELSE IF no_result THEN NotStarted
    ELSE InnerLoopIn(categories, 0, TRUE)

\* it.next() of a generator of _iter_categories(categories): the generator afterwards
_iter_categories(categories, it) ==
    IF it.at = "yielded"
    THEN InnerLoopIn(categories, ResumeIndex(it), FALSE)
    ELSE InnerLoopIn(categories, 0, TRUE)

\* the generators of lines 319 and 323, by the attribute that holds them
SweepGenerators == {"_walked_candidates", "_walk_candidates"}

CategoriesOf(attribute) ==
    IF attribute = "_walked_candidates" THEN {"walk"} ELSE {"walk", "stumble", "intro"}

GeneratorOf(attribute) ==
    IF attribute = "_walked_candidates" THEN _walked_candidates ELSE _walk_candidates

\* the generator after its next()
Resumed(attribute) ==
    IF attribute = "_walked_candidates"
    THEN _iter_category("walk", _walked_candidates)
    ELSE _iter_categories(CategoriesOf(attribute), _walk_candidates)

\* the candidates the generator would yield now
Matching(attribute) ==
    {c \in DOMAIN candidates : InCategories(c, CategoriesOf(attribute))}

\* this call runs into the IndexError of the inner loop after a yield of the pass
SweepEnds(attribute) ==
    /\ GeneratorOf(attribute).at = "yielded"
    /\ YieldableIn(CategoriesOf(attribute), ResumeIndex(GeneratorOf(attribute))) = {}

\* this call starts a pass of the outer loop
SweepStarts(attribute) ==
    GeneratorOf(attribute).at = "start" \/ SweepEnds(attribute)

\* the history of the pass under way is that of `result'
Known(attribute) == result.op = attribute /\ GeneratorOf(attribute).at = "yielded"

\* getattr(self, attribute).next().  History, kept with the result: whether the
\* call ended a pass that had yielded, the candidates yielded in the pass under
\* way, and those that matched at its start and at every call since.
next(attribute) ==
    /\ attached
    /\ _walked_candidates' = IF attribute = "_walked_candidates"
                             THEN Resumed(attribute) ELSE _walked_candidates
    /\ _walk_candidates' = IF attribute = "_walk_candidates"
                           THEN Resumed(attribute) ELSE _walk_candidates
    /\ result' = [op |-> attribute, kind |-> "yield",
                  value |-> ValueOf(Resumed(attribute)),
                  ended |-> SweepEnds(attribute),
                  yielded |-> (IF SweepStarts(attribute) \/ ~Known(attribute)
                               THEN {} ELSE result.yielded)
                              \cup ({ValueOf(Resumed(attribute))} \ {0}),
                  stayed |-> IF SweepStarts(attribute) THEN Matching(attribute)
                             ELSE IF Known(attribute)
                                  THEN result.stayed \cap Matching(attribute)
                                  ELSE {}]
    /\ UNCHANGED <<timeVars, clockVars, candidates, configVars, syncVars, classification,
                   attached, database, _master_member, _pending_callbacks, callback,
                   _destroy_community_packet, outbox, _timeline, _stumbled_candidates,
                   _bootstrap_candidates, bootstrap_candidates, statistics, _conversions>>

\* the number of candidates the model lets add_candidate discover: one more than
\* the table of NumIntroduce candidates holds at the start
MaxDiscovered == 4

\* lines 1494-1495 with the test of line 1494 left out
Added_replaces(c, candidate) ==
    [x \in DOMAIN candidates \cup {c} |-> IF x = c THEN candidate ELSE candidates[x]]

\* lines 1494-1495: self._candidates after add_candidate
Added(c, candidate) ==
    IF c \in DOMAIN candidates THEN candidates
    ELSE [x \in DOMAIN candidates \cup {c} |-> IF x = c THEN candidate ELSE candidates[x]]

\* lines 1494-1500: the counters after add_candidate of a candidate with the given
\* number of entries in candidate._timestamps
Counted(c, timestamps) ==
    IF c \in DOMAIN candidates THEN statistics
    ELSE [total_candidates_discovered |-> statistics.total_candidates_discovered + 1,
          total_candidates_overlapped |-> statistics.total_candidates_overlapped
                                          + (IF timestamps > 1 THEN 1 ELSE 0)]

\* the assert of line 1492
BootstrapAddress(c) == c \in DOMAIN bootstrap_candidates

\* add_candidate(candidate) for a candidate of the category that no other community
\* knows and that passes the assert of line 1492: a new socket address is appended
\* to the OrderedDict and counted, a known one changes nothing.  The addresses of
\* the model are numbered in the order of their insertion.
add_candidate(c, category) ==
    /\ attached
    /\ result.kind # "continue"
    /\ \A k \in DOMAIN candidates : k <= c
    /\ ~BootstrapAddress(c)
    /\ c \in DOMAIN candidates \/ statistics.total_candidates_discovered < MaxDiscovered
    /\ candidates' = Added(c, [active |-> TRUE, global_time |-> 0, category |-> category])
    /\ statistics' = Counted(c, 1)
    /\ UNCHANGED <<timeVars, clockVars, configVars, syncVars, classification, attached,
                   database, _master_member, _pending_callbacks, callback,
                   _destroy_community_packet, outbox, _timeline, _walked_candidates,
                   _stumbled_candidates, _walk_candidates, _bootstrap_candidates,
                   bootstrap_candidates, _conversions, result>>

InitSweep ==
    \E cands \in IntroducePools :
        InitCommunity({}, CommunityMessages, Capacity, "largest", cands, HistoryOff)

NextSweep ==
    \/ \E attribute \in SweepGenerators : next(attribute)
    \/ \E c \in 1..NumIntroduce, category \in Categories : set_category(c, category)
    \/ \E c \in 1..NumIntroduce : remove_candidate(c)
    \/ \E c \in 1..NumIntroduce, category \in Categories : add_candidate(c, category)

SpecSweep == InitSweep /\ [][NextSweep]_vars

\* a call of next() on one of the generators
C24_Next(attribute) == result'.op = attribute /\ next(attribute)

C24_SentinelStep ==
    \A attribute \in SweepGenerators :
        (C24_Next(attribute) /\ SweepEnds(attribute)) => result'.value = 0

\* C24 as claimed: every sweep of a category iterator yields its matching
\* candidates and then None before the next sweep starts, also when it yielded
\* at least one candidate.
C24_SentinelAfterEverySweep == [][C24_SentinelStep]_vars

C24_Step ==
    \A attribute \in SweepGenerators :
        C24_Next(attribute) =>
            /\ result'.value # 0 => result'.value \in Matching(attribute)
            /\ result'.value = 0 <=>
                   (SweepStarts(attribute) /\ Matching(attribute) = {})
            /\ (SweepEnds(attribute) /\ Matching(attribute) # {}) =>
                   /\ result'.value = Lowest(Matching(attribute))
                   /\ result'.yielded = {result'.value}
            /\ (~SweepStarts(attribute) /\ Known(attribute)) =>
                   result'.yielded = result.yielded \cup {result'.value}

\* C24 amended: a sweep of a category iterator yields matching candidates only;
\* None is yielded exactly when a sweep that starts finds no matching candidate,
\* and a sweep that yielded at least one candidate is followed at once by the
\* first candidate of the next sweep, without a None in between.
C24_SentinelAfterEmptySweep == [][C24_Step]_vars

\* the generator of the walk category has yielded candidates 1 and 3 in one
\* sweep and, called again, yields candidate 1 as the first of the next sweep
C24_Witness ==
    /\ result.op = "_walked_candidates"
    /\ result.ended
    /\ result.value = 1
    /\ result.yielded = {1}
    /\ result.stayed = {1, 3}
    /\ DOMAIN candidates = 1..NumIntroduce
    /\ candidates[2].category = "stumble"
    /\ _walked_candidates.at = "yielded"
    /\ _walk_candidates.at = "yielded"

C25_Step ==
    \A attribute \in SweepGenerators :
        (C24_Next(attribute) /\ Known(attribute)) =>
            /\ (~SweepStarts(attribute) /\ result'.value \in result.stayed) =>
                   result'.value \notin result.yielded
            /\ SweepEnds(attribute) =>
                   (result.stayed \cap Matching(attribute)) \subseteq result.yielded

\* C25: a category iterator tolerates changes of the candidate table between two
\* yields: a candidate that matches the category and stays in the table during a
\* whole sweep is yielded exactly once in that sweep, whatever other candidates,
\* the one just yielded included, are inserted or removed in between.
C25_YieldedOncePerSweep == [][C25_Step]_vars

-----------------------------------------------------------------------------
(* _iter_bootstrap and dispersy_yield_walk_candidates (lines 1357-1371, 1417-1477) *)

\* list(self._dispersy.bootstrap_candidates)
BootstrapList == KeysOf(BootstrapAddrs)

\* line 1363: the bootstrap candidate is in the community and eligible for a walk
BootstrapEligible(b) == bootstrap_candidates[b]

\* lines 1358-1368 without once: the for loop goes on behind position i; at the
\* end of the list a pass that yielded nothing yields None (0), another pass starts over
RECURSIVE BootstrapScan(_, _)
BootstrapScan(i, no_result) ==
    IF i > Len(BootstrapList)
    THEN IF no_result THEN 0 ELSE BootstrapScan(1, TRUE)
    ELSE IF BootstrapEligible(BootstrapList[i]) THEN i ELSE BootstrapScan(i + 1, no_result)

\* the position at which the generator self._bootstrap_candidates yields next
BootstrapIndex(it) == BootstrapScan(it.key_index + 1, it.at = "start")

\* self._bootstrap_candidates.next(): the generator after the call
_iter_bootstrap(it) ==
    IF BootstrapIndex(it) = 0
    THEN NotStarted
    ELSE [at |-> "yielded", key_value |-> BootstrapList[BootstrapIndex(it)],
          key_index |-> BootstrapIndex(it)]

\* list(self._iter_bootstrap(once = True)): the eligible bootstrap candidates, or
\* one None when there is none
_iter_bootstrap_once ==
    IF \E b \in BootstrapAddrs : BootstrapEligible(b)
    THEN SelectSeq(BootstrapList, BootstrapEligible)
    ELSE <<0>>

\* shuffle(bootstrap_candidates): any order of the list
Shuffles(s) == { [i \in 1..Len(s) |-> s[f[i]]] : f \in Permutations(1..Len(s)) }

\* the timestamp a bucket is sorted by (lines 1434-1436)
LastOf(c, category) ==
    IF category = "walk" THEN candidates[c].last_walk
    ELSE IF category = "stumble" THEN candidates[c].last_stumble
    ELSE candidates[c].last_intro

\* lines 1430-1431: the candidates of self._candidates in the order of the table,
\* each with the outcome of is_eligible_for_walk, its category and the timestamp of
\* that category
Entries(keys) ==
    [i \in 1..Len(keys) |->
        [sock_addr |-> keys[i],
         eligible |-> candidates[keys[i]].eligible,
         category |-> candidates[keys[i]].category,
         key |-> LastOf(keys[i], candidates[keys[i]].category)]]

EligibleWalk(e) == e.eligible /\ e.category = "walk"
EligibleStumble(e) == e.eligible /\ e.category = "stumble"
EligibleIntro(e) == e.eligible /\ e.category = "intro"

\* line 1432: categories[category], the eligible candidates of the category
Bucket(keys, category) ==
    IF category = "walk" THEN SelectSeq(Entries(keys), EligibleWalk)
    ELSE IF category = "stumble" THEN SelectSeq(Entries(keys), EligibleStumble)
    ELSE SelectSeq(Entries(keys), EligibleIntro)

\* the place of entry i in the list sorted by descending key
Rank_descending(s, i) ==
    1 + Cardinality({ j \in 1..Len(s) :
                        s[j].key > s[i].key \/ (s[j].key = s[i].key /\ j < i) })

\* the place of entry i in the sorted list: behind the entries with a lower key and
\* behind the earlier entries with the same key (the sort is stable)
Rank(s, i) ==
    1 + Cardinality({ j \in 1..Len(s) :
                        s[j].key < s[i].key \/ (s[j].key = s[i].key /\ j < i) })

\* sorted(list, key = ...): ascending and stable
Sorted(s) == [p \in 1..Len(s) |-> s[CHOOSE i \in 1..Len(s) : Rank(s, i) = p]]

\* the generator object dispersy_yield_walk_candidates() returns; its body has not run.
\* started and yielded record what the sweep bucketed and yielded so far.
NewWalk ==
    [op |-> "dispersy_yield_walk_candidates", kind |-> "return", exc |-> "", value |-> 0,
     bucket |-> "", phase |-> "created", walks |-> <<>>, stumbles |-> <<>>,
     intros |-> <<>>, fallback |-> <<>>, started |-> {}, yielded |-> <<>>]

\* the entries of a list as a set
Range(s) == { s[i] : i \in 1..Len(s) }

\* lines 1428-1436: the first next() runs the body up to the while loop
Begin(g, keys) ==
    IF g.phase = "created"
    THEN [g EXCEPT !.phase = "loop",
                   !.walks = Sorted(Bucket(keys, "walk")),
                   !.stumbles = Sorted(Bucket(keys, "stumble")),
                   !.intros = Sorted(Bucket(keys, "intro")),
                   !.started = Range(Bucket(keys, "walk")) \cup Range(Bucket(keys, "stumble"))
                                   \cup Range(Bucket(keys, "intro"))]
    ELSE g

\* yield of a candidate
Yield(g, sock_addr, key, bucket) ==
    [g EXCEPT !.kind = "yield", !.value = sock_addr, !.bucket = bucket,
              !.yielded = Append(@, [value |-> sock_addr, bucket |-> bucket, key |-> key])]

\* a pass of the while loop that yields nothing
Continue(g) == [g EXCEPT !.kind = "continue"]

\* lines 1445-1446
PopWalk(g) ==
    IF g.walks # <<>>
    THEN Yield([g EXCEPT !.walks = Tail(@)], Head(g.walks).sock_addr, Head(g.walks).key, "walk")
    ELSE Continue(g)

\* lines 1453-1455
PopStumble(g) ==
    Yield([g EXCEPT !.stumbles = Tail(@)], Head(g.stumbles).sock_addr,
          Head(g.stumbles).key, "stumble")

\* lines 1458-1461
PopIntro(g) ==
    Yield([g EXCEPT !.intros = Tail(@)], Head(g.intros).sock_addr, Head(g.intros).key, "intro")

\* lines 1449-1461: the inner loop draws until it hits a bucket that is not empty;
\* heads says which bucket the draws favour
StumbleOrIntro(g, heads) ==
    IF g.stumbles = <<>> /\ g.intros = <<>> THEN Continue(g)
    ELSE IF g.intros = <<>> \/ (heads /\ g.stumbles # <<>>) THEN PopStumble(g)
    ELSE PopIntro(g)

\* lines 1464-1467: a candidate of self._bootstrap_candidates, None is not yielded
PopBootstrap(g) ==
    IF BootstrapIndex(_bootstrap_candidates) # 0
    THEN Yield(g, BootstrapList[BootstrapIndex(_bootstrap_candidates)], 0, "bootstrap")
    ELSE Continue(g)

\* lines 1472-1475: the next entry of the shuffled list, None included
PopFallback(g) ==
    IF g.fallback # <<>>
    THEN Yield([g EXCEPT !.fallback = Tail(@)], Head(g.fallback), 0, "fallback")
    ELSE [g EXCEPT !.kind = "raise", !.exc = "StopIteration", !.value = 0, !.bucket = "",
                   !.phase = "done"]

\* the outcomes of random() at line 1440, with the outcome of the inner draws
Draws == {"walk", "stumble", "intro", "bootstrap"}

\* the bound of the model on the bootstrap candidates one sweep yields inside the loop
MaxBootstrapYields == 1

BootstrapYields(g) ==
    Cardinality({ i \in 1..Len(g.yielded) : g.yielded[i].bucket = "bootstrap" })

\* one pass of the while loop of line 1438
LoopPass(g, r) ==
    IF r = "walk" THEN PopWalk(g)
    ELSE IF r = "bootstrap" THEN PopBootstrap(g)
    ELSE StumbleOrIntro(g, r = "stumble")

\* dispersy_yield_walk_candidates(): the call returns a generator
dispersy_yield_walk_candidates ==
    /\ attached
    /\ result.kind # "continue"
    /\ result' = NewWalk
    /\ UNCHANGED <<timeVars, clockVars, candidates, configVars, syncVars, lifeVars>>

\* the generator runs on: next() in the state "continue" is the next pass of the
\* same call.  r is the draw of line 1440.
walk_next(r) ==
    /\ result.op = "dispersy_yield_walk_candidates"
    /\ result.phase # "done"
    /\ r = "bootstrap" => BootstrapYields(result) < MaxBootstrapYields
    /\ \E keys \in {Keys} : \E g \in {Begin(result, keys)} :
           IF g.phase = "fallback"
           THEN /\ result' = PopFallback(g)
                /\ UNCHANGED _bootstrap_candidates
           ELSE IF g.walks = <<>> /\ g.stumbles = <<>> /\ g.intros = <<>>
           THEN /\ \E shuffled \in Shuffles(_iter_bootstrap_once) :
                        result' = PopFallback([g EXCEPT !.phase = "fallback",
                                                        !.fallback = shuffled])
                /\ UNCHANGED _bootstrap_candidates
           ELSE /\ result' = LoopPass(g, r)
                /\ _bootstrap_candidates' = IF r = "bootstrap"
                                            THEN _iter_bootstrap(_bootstrap_candidates)
                                            ELSE _bootstrap_candidates
    /\ UNCHANGED <<timeVars, clockVars, candidates, configVars, syncVars, classification,
                   attached, database, _master_member, _pending_callbacks, callback,
                   _destroy_community_packet, outbox, _timeline, _walked_candidates,
                   _stumbled_candidates, _walk_candidates, bootstrap_candidates, statistics,
                   _conversions>>

\* between two calls a walk to a bootstrap candidate is made: for 55 seconds it is
\* not eligible for another one
bootstrap_walked(b) ==
    /\ result.kind # "continue"
    /\ bootstrap_candidates[b]
    /\ bootstrap_candidates' = [bootstrap_candidates EXCEPT ![b] = FALSE]
    /\ UNCHANGED <<timeVars, clockVars, candidates, configVars, syncVars, classification,
                   attached, database, _master_member, _pending_callbacks, callback,
                   _destroy_community_packet, outbox, _timeline, _walked_candidates,
                   _stumbled_candidates, _walk_candidates, _bootstrap_candidates,
                   statistics, _conversions, result>>

-----------------------------------------------------------------------------
(* Specification of the candidates to walk to *)

\* the timestamps of the candidates of the model: the first of the table has the
\* latest one, the others share one
Stamp(c) == IF c = 1 THEN 3 ELSE 1

WalkPools ==
    { [c \in 1..NumIntroduce |->
          [active |-> TRUE, global_time |-> 0, category |-> k[c],
           eligible |-> (c < NumIntroduce \/ e),
           last_walk |-> Stamp(c), last_stumble |-> 4 - Stamp(c),
           last_intro |-> Stamp((c % NumIntroduce) + 1)]] :
        k \in [1..NumIntroduce -> Categories \cup {"none"}], e \in BOOLEAN }

InitWalk ==
    \E cands \in WalkPools :
        InitCommunity({}, CommunityMessages, Capacity, "largest", cands, HistoryOff)

NextWalk ==
    \/ dispersy_yield_walk_candidates
    \/ \E r \in Draws : walk_next(r)
    \/ set_category(1, "none")
    \/ \E b \in BootstrapAddrs : bootstrap_walked(b)

SpecWalk == InitWalk /\ [][NextWalk]_vars

\* the caller goes on calling next() and every outcome of the draws comes up again
FairDraws == \A r \in Draws : WF_vars(walk_next(r))

SpecWalkFair == SpecWalk /\ FairDraws

-----------------------------------------------------------------------------
(* C26: the order of one sweep of dispersy_yield_walk_candidates *)

\* a call of next() on the generator that yields
C26_Yields ==
    /\ result.op = "dispersy_yield_walk_candidates"
    /\ result'.op = "dispersy_yield_walk_candidates"
    /\ result'.kind = "yield"
    /\ Len(result'.yielded) = Len(result.yielded) + 1

\* what the call yielded, with its bucket
C26_Last == result'.yielded[Len(result'.yielded)]

\* the timestamp the candidate had in its category when the sweep started
C26_StampOf(y) ==
    { e.key : e \in { x \in result'.started :
                        x.sock_addr = y.value /\ x.category = y.bucket } }

\* the yields of the sweep before this one that came from the same bucket
C26_Before == { i \in 1..Len(result.yielded) : result.yielded[i].bucket = C26_Last.bucket }

C26_Step ==
    C26_Yields =>
        /\ C26_Last.bucket \in Categories =>
               \A i \in C26_Before :
                   \A old \in C26_StampOf(result.yielded[i]), new \in C26_StampOf(C26_Last) :
                       old <= new
        /\ C26_Last.bucket \in Categories => C26_StampOf(C26_Last) # {}
        /\ C26_Last.bucket = "fallback" =>
               /\ result'.walks = <<>> /\ result'.stumbles = <<>> /\ result'.intros = <<>>
               /\ \A e \in result'.started :
                      \E i \in 1..Len(result.yielded) :
                          /\ result.yielded[i].value = e.sock_addr
                          /\ result.yielded[i].bucket = e.category

\* C26: within one sweep the candidates of one category are yielded in ascending
\* order of the timestamp of that category (last_walk, last_stumble, last_intro), and
\* the shuffled fallback list of bootstrap candidates is yielded only when every
\* candidate of the three buckets has been yielded
C26_AscendingThenFallback == [][C26_Step]_vars

\* a sweep yielded two walk candidates with different timestamps, the table order
\* being the other way round, and has reached the fallback list
C26_Witness ==
    /\ result.op = "dispersy_yield_walk_candidates"
    /\ result.kind = "yield"
    /\ result.bucket = "fallback"
    /\ \E i, j \in 1..Len(result.yielded) :
           /\ i < j
           /\ result.yielded[i].bucket = "walk"
           /\ result.yielded[j].bucket = "walk"
           /\ result.yielded[i].key < result.yielded[j].key
           /\ result.yielded[i].value > result.yielded[j].value

-----------------------------------------------------------------------------
(* C27: what one sweep of dispersy_yield_walk_candidates yields *)

\* the candidates the sweep found eligible and of category walk, stumble or intro
C27_Started == { e.sock_addr : e \in result'.started }

\* the values the sweep yielded before this call
C27_Yielded == { result.yielded[i].value : i \in 1..Len(result.yielded) }

\* no None, a candidate of the table at most once and only one of the start
C27_Only ==
    C26_Yields =>
        /\ C26_Last.value # 0
        /\ C26_Last.value \notin BootstrapAddrs =>
               /\ C26_Last.value \notin C27_Yielded
               /\ C26_Last.value \in C27_Started

\* at the end of the sweep every candidate of the start has been yielded
C27_All ==
    (result.op = "dispersy_yield_walk_candidates" /\ result.phase = "done") =>
        \A e \in result.started :
            \E i \in 1..Len(result.yielded) : result.yielded[i].value = e.sock_addr

\* a sweep that has started ends, unless the caller drops it for a new generator
C27_Terminates ==
    (result.op = "dispersy_yield_walk_candidates" /\ result.phase \in {"loop", "fallback"})
        ~> (result.op = "dispersy_yield_walk_candidates" /\ result.phase \in {"done", "created"})

\* C27: a sweep yields each candidate that is no bootstrap candidate at most once,
\* yields only candidates that were eligible and of category walk, stumble or intro
\* when it started, never yields None, and with fair draws yields all of them and ends
C27_SweepYieldsAllOnce == [][C27_Only]_vars /\ []C27_All /\ C27_Terminates

\* the parts of C27 without the None of the fallback list
C27_OnlyCandidates ==
    (C26_Yields /\ C26_Last.value \notin BootstrapAddrs \cup {0}) =>
        /\ C26_Last.value \notin C27_Yielded
        /\ C26_Last.value \in C27_Started

C27_ButForNone == [][C27_OnlyCandidates]_vars /\ []C27_All /\ C27_Terminates

-----------------------------------------------------------------------------
(* create_community and join_community when a step raises (lines 90-147, 183-205) *)

\* the calls inside the try block of create_community, in their order, and of
\* join_community; the exception a call raises is named after the call
CreateSteps ==
    <<"load_community", "create_dispersy_identity(sign_with_master=True)",
      "create_dispersy_identity", "create_dispersy_authorize">>
JoinSteps == <<"load_community", "create_dispersy_identity">>

\* lines 91 and 189: INSERT INTO community
Inserted(cls, public_key) ==
    [community |-> TRUE, public_key |-> public_key, classification |-> cls]

\* the DELETE left out: the row stays
Deleted_keeps_row(db) == db

\* lines 141 and 199: DELETE FROM community WHERE id = community_database_id
Deleted(db) == [db EXCEPT !.community = FALSE, !.classification = ""]

\* the community table after the try statement: the except clause deletes the row
AfterTry(cls, public_key, raises) ==
    IF raises = "" THEN Inserted(cls, public_key) ELSE Deleted(Inserted(cls, public_key))

\* the identities create_community stored before the call that raises
CreatedBefore(my_member, raises) ==
    IF raises = CreateSteps[2] THEN {}
    ELSE IF raises = CreateSteps[3]
    THEN { r \in CreatedRows(my_member, {}) : r.member = 0 }
    ELSE CreatedRows(my_member, {})

\* the identity join_community stored
JoinedRows(my_member, raises) ==
    IF raises = ""
    THEN { [global_time |-> 1, meta |-> "dispersy-identity", member |-> my_member,
            undone |-> FALSE] }
    ELSE {}

\* the bound of the model on the calls that stay registered after failed loads
MaxDangling == 2

\* __init__ raises: before line 273, or behind it with the download registered
RaisesInInit(cls, master) ==
    /\ \E registered \in {callback} \cup
                         (IF DownloadsMasterMember(cls, master)
                             /\ Cardinality(callback) < MaxDangling
                          THEN {callback \cup {Registered(NewId(callback))}} ELSE {}) :
           callback' = registered
    /\ UNCHANGED <<classification, attached, _master_member, _pending_callbacks,
                   _destroy_community_packet, _timeline, timeVars, clockVars,
                   _meta_messages, syncVars, iterVars>>

\* load_community(master) on the empty store of a new community, followed by the
\* messages that store rows
LoadedWith(cls, master, rows) ==
    /\ classification' = cls
    /\ _master_member' = master
    /\ callback' = IF DownloadsMasterMember(cls, master)
                   THEN callback \cup {Registered(NewId(callback))} ELSE callback
    /\ _pending_callbacks' = IF DownloadsMasterMember(cls, master)
                             THEN <<NewId(callback)>> ELSE <<>>
    /\ attached' = TRUE
    /\ _destroy_community_packet' = NoneValue
    /\ sync' = rows
    /\ _global_time' = InitGlobalTime(rows)
    /\ _acceptable_global_time_cache' = 0
    /\ _acceptable_global_time_deadline' = 0
    /\ _sync_cache' = NoneValue
    /\ _nrsyncpackets' = 0
    /\ _timeline' = <<>>
    /\ _walked_candidates' = NotStarted
    /\ _stumbled_candidates' = NotStarted
    /\ _walk_candidates' = NotStarted
    /\ _bootstrap_candidates' = NotStarted
    /\ UNCHANGED <<calls, _meta_messages, bootstrap_candidates, statistics, _conversions>>

\* cls.create_community(my_member) when the call `raises' of the try block raises
create_community_raises(cls, my_member, raises) ==
    /\ classification = ""
    /\ ~database.community
    /\ sync = {}
    /\ \E i \in 1..Len(CreateSteps) : raises = CreateSteps[i]
    /\ raises = CreateSteps[4] => permission_triplets(my_member, _meta_messages) # {}
    /\ database' = AfterTry(cls, TRUE, raises)
    /\ IF raises = CreateSteps[1]
       THEN RaisesInInit(cls, [public_key |-> TRUE])
       ELSE LoadedWith(cls, [public_key |-> TRUE], CreatedBefore(my_member, raises))
    /\ result' = Failure("create_community", raises)
    /\ UNCHANGED <<outbox, now, candidates, capacity, strategy>>

\* cls.join_community(master, my_member); raises is the call of the try block that
\* raises, "" when none does
join_community(cls, my_member, raises) ==
    /\ classification = ""
    /\ ~database.community
    /\ sync = {}
    /\ raises = "" \/ \E i \in 1..Len(JoinSteps) : raises = JoinSteps[i]
    /\ database' = AfterTry(cls, database.public_key, raises)
    /\ IF raises = JoinSteps[1]
       THEN RaisesInInit(cls, MasterMember)
       ELSE LoadedWith(cls, MasterMember, JoinedRows(my_member, raises))
    /\ result' = IF raises = ""
                 THEN [op |-> "join_community", kind |-> "return", my_member |-> my_member]
                 ELSE Failure("join_community", raises)
    /\ UNCHANGED <<outbox, now, candidates, capacity, strategy>>

-----------------------------------------------------------------------------
(* Specification of creating and joining with calls that raise *)

InitJoin ==
    \E catalogue \in Catalogues, public_key \in BOOLEAN :
        /\ InitAttributes({}, catalogue, Capacity, "largest", IdlePool, HistoryOff)
        /\ classification = ""
        /\ attached = FALSE
        /\ database = [community |-> FALSE, public_key |-> public_key, classification |-> ""]
        /\ _master_member = [public_key |-> FALSE]
        /\ _pending_callbacks = <<>>
        /\ callback = {}
        /\ _destroy_community_packet = NoneValue
        /\ outbox = <<>>
        /\ _timeline = <<>>
        /\ _walked_candidates = NotStarted
        /\ _stumbled_candidates = NotStarted
        /\ _walk_candidates = NotStarted
        /\ _bootstrap_candidates = NotStarted
        /\ bootstrap_candidates = FreshBootstrap
        /\ statistics = Statistics(candidates)
        /\ _conversions = Conversions(initiate_conversions)

NextJoin ==
    \/ \E my_member \in 1..2 : create_community("Community", my_member)
    \/ \E my_member \in 1..2, i \in 1..Len(CreateSteps) :
           create_community_raises("Community", my_member, CreateSteps[i])
    \/ \E my_member \in 1..2, raises \in {"", JoinSteps[1], JoinSteps[2]} :
           join_community("Community", my_member, raises)

SpecJoin == InitJoin /\ [][NextJoin]_vars

\* create_community or join_community is called
C28_Called ==
    /\ classification = ""
    /\ ~database.community
    /\ result'.op \in {"create_community", "join_community"}

C28_Step ==
    C28_Called =>
        /\ result'.kind \in {"raise", "return"}
        /\ result'.kind = "raise" =>
               /\ ~database'.community
               /\ \E i \in 1..Len(CreateSteps) : result'.exc = CreateSteps[i]
        /\ result'.kind = "return" =>
               /\ database'.community
               /\ database'.classification = classification'
               /\ attached'

\* C28: when load_community, create_dispersy_identity or create_dispersy_authorize
\* raises inside create_community or join_community, the row of the community
\* table that was inserted is deleted and the exception reaches the caller; when
\* none raises, the row stays and the loaded community is returned
C28_RowRolledBack == [][C28_Step]_vars

\* join_community raised in create_dispersy_identity: the community is loaded
\* and attached, its row is gone
C28_Witness ==
    /\ result.op = "join_community"
    /\ result.kind = "raise"
    /\ result.exc = JoinSteps[2]
    /\ attached
    /\ ~database.community

-----------------------------------------------------------------------------
(* The catalogue of meta messages: _initialize_meta_messages (lines 281-282, 368-380) *)

\* the check of lines 374 and 379 left out
NameTaken_never(catalogue, meta_message) == FALSE

\* lines 374 and 379: meta_message.name in self._meta_messages
NameTaken(catalogue, meta_message) == \E m \in catalogue : m.name = meta_message.name

\* lines 375 and 380: self._meta_messages[meta_message.name] = meta_message
Assigned(catalogue, meta_message) ==
    { m \in catalogue : m.name # meta_message.name } \cup {meta_message}

\* one of the for loops: the catalogue after it and whether an assert failed
RECURSIVE Obtain(_, _)
Obtain(catalogue, messages) ==
    IF messages = <<>> THEN [catalogue |-> catalogue, failed |-> FALSE]
    ELSE IF NameTaken(catalogue, Head(messages))
    THEN [catalogue |-> catalogue, failed |-> TRUE]
    ELSE Obtain(Assigned(catalogue, Head(messages)), Tail(messages))

\* lines 373-380: the messages of Dispersy, then those of the community
Initialized(dispersy_messages, own_messages) ==
    IF Obtain({}, dispersy_messages).failed
    THEN Obtain({}, dispersy_messages)
    ELSE Obtain(Obtain({}, dispersy_messages).catalogue, own_messages)

\* self._meta_messages = {} and self._initialize_meta_messages() of __init__, with
\* the lists the two initiate_meta_messages return
_initialize_meta_messages(dispersy_messages, own_messages) ==
    /\ _meta_messages' = Initialized(dispersy_messages, own_messages).catalogue
    /\ result' = [op |-> "_initialize_meta_messages",
                  kind |-> IF Initialized(dispersy_messages, own_messages).failed
                           THEN "raise" ELSE "return",
                  exc |-> IF Initialized(dispersy_messages, own_messages).failed
                          THEN "AssertionError" ELSE "",
                  supplied |-> dispersy_messages \o own_messages,
                  own |-> Len(own_messages)]
    /\ UNCHANGED <<timeVars, clockVars, candidates, capacity, strategy, syncVars, lifeVars>>

-----------------------------------------------------------------------------
(* Specification of the catalogue *)

\* the longest list of the model
MaxSupplied == 2

\* the lists of at most MaxSupplied messages
ListsOf(S) == UNION { [1..k -> S] : k \in 0..MaxSupplied }

\* messages Dispersy supplies, two of them under one name
DispersySupplied ==
    { Meta("dispersy-authorize", "PublicResolution", TRUE, FALSE),
      Meta("dispersy-authorize", "LinearResolution", TRUE, FALSE),
      Meta("dispersy-undo-other", "LinearResolution", TRUE, FALSE) }

\* messages the community supplies: two under one name and one under a name of Dispersy
OwnSupplied ==
    { Meta("public-sync", "PublicResolution", TRUE, FALSE),
      Meta("public-sync", "LinearResolution", TRUE, TRUE),
      Meta("linear-sync", "LinearResolution", TRUE, FALSE),
      Meta("dispersy-authorize", "DynamicResolution", TRUE, FALSE) }

InitCatalogue == InitCommunity({}, {}, Capacity, "largest", IdlePool, HistoryOff)

NextCatalogue ==
    \E dispersy_messages \in ListsOf(DispersySupplied), own_messages \in ListsOf(OwnSupplied) :
        _initialize_meta_messages(dispersy_messages, own_messages)

SpecCatalogue == InitCatalogue /\ [][NextCatalogue]_vars

\* the first message of the list with the name
C29_First(messages, name) ==
    messages[CHOOSE i \in 1..Len(messages) :
                 /\ messages[i].name = name
                 /\ \A j \in 1..(i - 1) : messages[j].name # name]

\* a name is supplied a second time
C29_Twice(messages) ==
    \E i, j \in 1..Len(messages) : i < j /\ messages[i].name = messages[j].name

C29_Step ==
    result'.op = "_initialize_meta_messages" =>
        /\ \A m1, m2 \in _meta_messages' : m1.name = m2.name => m1 = m2
        /\ \A m \in _meta_messages' :
               /\ \E i \in 1..Len(result'.supplied) : result'.supplied[i] = m
               /\ m = C29_First(result'.supplied, m.name)
        /\ C29_Twice(result'.supplied) <=>
               (result'.kind = "raise" /\ result'.exc = "AssertionError")
        /\ result'.kind = "return" =>
               \A i \in 1..Len(result'.supplied) : result'.supplied[i] \in _meta_messages'

\* C29: after _initialize_meta_messages the catalogue holds one meta message per
\* name, the messages of Dispersy being registered before those of the community:
\* the message under a name is the first one supplied under it; a name supplied a
\* second time is rejected (AssertionError) and does not replace the first message
C29_OnePerName == [][C29_Step]_vars

\* the community supplied a message of its own and then one under the name of a
\* message of Dispersy: the call raised and the catalogue holds Dispersy's message
C29_Witness ==
    /\ result.op = "_initialize_meta_messages"
    /\ result.kind = "raise"
    /\ result.own = 2
    /\ Meta("dispersy-authorize", "PublicResolution", TRUE, FALSE) \in _meta_messages
    /\ result.supplied[Len(result.supplied)].name = "dispersy-authorize"
    /\ \E m \in _meta_messages : m.name \in {"public-sync", "linear-sync"}

-----------------------------------------------------------------------------
(* Community.dispersy_store called on its own (lines 534-556) *)

\* community.dispersy_store(messages) for a batch of messages of the community
call_dispersy_store(batch) ==
    /\ \A i \in 1..Len(batch) : \E m \in _meta_messages : m.name = batch[i][1].meta
    /\ _sync_cache' = dispersy_store(_sync_cache,
                                     [i \in 1..Len(batch) |-> Message(batch[i][1], batch[i][2])])
    /\ result' = [op |-> "dispersy_store", kind |-> "return",
                  messages |-> [i \in 1..Len(batch) |-> Message(batch[i][1], batch[i][2])]]
    /\ UNCHANGED <<timeVars, clockVars, candidates, configVars, lifeVars, sync, _nrsyncpackets>>

NextStore ==
    \/ \E h \in Helpers : dispersy_claim_sync_bloom_filter(h)
    \/ \E batch \in SyncBatches : call_dispersy_store(batch) /\ ResponsesBounded
    \/ update_global_time(MaxGT + 1)

SpecStore == InitSync /\ [][NextStore]_vars

\* a message passes the priority, window and modulo test of the cache
C31_Passes(cache, message) ==
    /\ message.priority > 32
    /\ cache.time_low <= message.global_time
    /\ message.global_time <= cache.time_high
    /\ (message.global_time + cache.offset) % cache.modulo = 0

\* the attributes of the community but the sync cache
C31_Rest == <<timeVars, clockVars, candidates, configVars, lifeVars, sync, _nrsyncpackets>>

C31_Step ==
    result'.op = "dispersy_store" =>
        /\ _sync_cache'.kind = _sync_cache.kind
        /\ C31_Rest' = C31_Rest
        /\ _sync_cache.kind = "SyncCache" =>
               /\ _sync_cache'.time_low = _sync_cache.time_low
               /\ _sync_cache'.time_high = _sync_cache.time_high
               /\ _sync_cache'.modulo = _sync_cache.modulo
               /\ _sync_cache'.offset = _sync_cache.offset
               /\ _sync_cache'.times_used = _sync_cache.times_used
               /\ _sync_cache'.candidate = _sync_cache.candidate
        /\ (\/ _sync_cache.kind # "SyncCache"
            \/ \A i \in 1..Len(result'.messages) :
                   ~C31_Passes(_sync_cache, result'.messages[i])) =>
               _sync_cache' = _sync_cache

\* C31: dispersy_store never creates or replaces the sync cache and never changes
\* its time_low, time_high, modulo, offset, times_used or candidate; without a
\* cache, or when no message passes the priority, window and modulo test, the
\* whole state of the community is as before
C31_StoreKeepsCache == [][C31_Step]_vars

\* dispersy_store added a packet to the filter of the cache and counted a response
C31_Witness ==
    /\ result.op = "dispersy_store"
    /\ _sync_cache.kind = "SyncCache"
    /\ _sync_cache.responses_received > 0
    /\ _sync_cache.bloom_filter.keys # {}
    /\ \E i \in 1..Len(result.messages) : ~C31_Passes(_sync_cache, result.messages[i])

-----------------------------------------------------------------------------
(* C32: the acceptable global time against the local global time *)

C32_Step == result'.op = "acceptable_global_time" => result'.value >= global_time

\* C32: every value a read of acceptable_global_time returns is at least the
\* global time of the community at the moment of the read
C32_AtLeastGlobalTime == [][C32_Step]_vars

\* the part that holds: a read that recomputes, with a global time below the clamp
C32_RecomputedStep ==
    (result'.op = "acceptable_global_time" /\ AcceptableExpired
        /\ _global_time <= MaxStoredInt) => result'.value >= global_time

C32_RecomputedAtLeastGlobalTime == [][C32_RecomputedStep]_vars

-----------------------------------------------------------------------------
(* C33: the packet count the largest strategy records *)

\* a run of the largest strategy
C33_Run == strategy = "largest" /\ result'.op = "_dispersy_claim_sync_bloom_filter_largest"

\* the run takes the branch of the pivot (line 768)
C33_PivotBranch == syncable_messages # {} /\ result'.pivot > 1 /\ _nrsyncpackets >= capacity

C33_Step ==
    /\ (C33_Run /\ C33_PivotBranch) => _nrsyncpackets = capacity + 1
    /\ (C33_Run /\ _nrsyncpackets = 0 /\ result'.kind = "return") =>
           result'.value.time_low = 1
    /\ (strategy = "largest" /\ _nrsyncpackets' # _nrsyncpackets) =>
           /\ C33_Run
           /\ ~C33_PivotBranch
           /\ _nrsyncpackets = 0
           /\ _nrsyncpackets' = capacity + 1
           /\ CountSyncable > capacity

\* C33: the largest strategy takes the branch of the pivot only after an earlier
\* run has found more than capacity syncable packets that are not undone; until
\* then every tuple it returns has time_low = 1; the recorded count only changes
\* from 0 to capacity + 1 and is never lowered, whatever is undone afterwards
C33_PivotAfterFullRun == [][C33_Step]_vars

\* a run took the branch of the pivot although, after an undo, the store holds no
\* more than capacity syncable packets
C33_Witness ==
    /\ strategy = "largest"
    /\ result.op = "_dispersy_claim_sync_bloom_filter_largest"
    /\ result.kind = "return"
    /\ result.pivot > 1
    /\ _nrsyncpackets = capacity + 1
    /\ CountSyncable <= capacity

-----------------------------------------------------------------------------
(* C34: the ranges _select_bloomfilter_range returns to the largest strategy *)

\* the call of line 774, above the pivot
C34_Right == _select_bloomfilter_range(result'.pivot - 1, capacity, TRUE, acceptable_global_time)

\* the call of line 775, below the pivot, made when the right range is full
C34_Left == _select_bloomfilter_range(result'.pivot + 1, capacity, FALSE, acceptable_global_time)

C34_LeftCalled == ~C34_Right.raised /\ C34_Right.range[3] = capacity

C34_Ordered(r) == r.range[1] <= r.range[2]

C34_Step ==
    (C33_Run /\ C33_PivotBranch) =>
        /\ ~C34_Right.raised /\ C34_Ordered(C34_Right)
        /\ C34_LeftCalled => (~C34_Left.raised /\ C34_Ordered(C34_Left))

\* C34: every call of _select_bloomfilter_range the largest strategy makes returns
\* a range [low, high, count] with low <= high and never fails on an empty selection
C34_RangeNeverFails == [][C34_Step]_vars

C34_OrderedStep ==
    (C33_Run /\ C33_PivotBranch) =>
        /\ ~C34_Right.raised => C34_Ordered(C34_Right)
        /\ (C34_LeftCalled /\ ~C34_Left.raised) => C34_Ordered(C34_Left)

\* the ranges of the calls that do not fail have low <= high
C34_ReturnedRangesOrdered == [][C34_OrderedStep]_vars

-----------------------------------------------------------------------------
(* C35: the candidate table, create_candidate and add_candidate *)

\* WalkCandidate(sock_addr, ...): known to no community yet
WalkCandidate == [active |-> FALSE, global_time |-> 0, category |-> "none"]

\* create_candidate(sock_addr, tunnel, lan_address, wan_address, connection_type)
\* with a bool tunnel: the assert of line 1483, then add_candidate with the assert
\* of line 1492 (candidate._timestamps of the new candidate is empty)
create_candidate(c) ==
    /\ attached
    /\ result.kind # "continue"
    /\ \A k \in DOMAIN candidates : k <= c
    /\ c \in DOMAIN candidates \/ BootstrapAddress(c)
         \/ statistics.total_candidates_discovered < MaxDiscovered
    /\ IF c \in DOMAIN candidates \/ BootstrapAddress(c)
       THEN /\ result' = [op |-> "create_candidate", kind |-> "raise",
                          exc |-> "AssertionError", value |-> c]
            /\ UNCHANGED <<candidates, statistics>>
       ELSE /\ result' = [op |-> "create_candidate", kind |-> "return", exc |-> "",
                          value |-> c]
            /\ candidates' = Added(c, WalkCandidate)
            /\ statistics' = Counted(c, 0)
    /\ UNCHANGED <<timeVars, clockVars, configVars, syncVars, classification, attached,
                   database, _master_member, _pending_callbacks, callback,
                   _destroy_community_packet, outbox, _timeline, _walked_candidates,
                   _stumbled_candidates, _walk_candidates, _bootstrap_candidates,
                   bootstrap_candidates, _conversions>>

\* the candidates line 1389 keeps, in the order of the table
ActiveWalkOrStumble ==
    SelectSeq(Keys, LAMBDA c : candidates[c].active
                               /\ candidates[c].category \in {"walk", "stumble"})

\* dispersy_yield_random_candidates(): the assert of line 1387, then the shuffled list
dispersy_yield_random_candidates ==
    /\ attached
    /\ result.kind # "continue"
    /\ IF \E b \in DOMAIN bootstrap_candidates : b \in DOMAIN candidates
       THEN result' = [op |-> "dispersy_yield_random_candidates", kind |-> "raise",
                       exc |-> "AssertionError", value |-> <<>>]
       ELSE \E shuffled \in Shuffles(ActiveWalkOrStumble) :
                result' = [op |-> "dispersy_yield_random_candidates", kind |-> "return",
                           exc |-> "", value |-> shuffled]
    /\ UNCHANGED <<timeVars, clockVars, candidates, configVars, syncVars, lifeVars>>

\* the socket addresses the calls of the model are made with
CandidateAddrs == (1..NumIntroduce) \cup BootstrapAddrs

InitCandidates == InitSweep

NextCandidates ==
    \/ \E c \in CandidateAddrs : create_candidate(c)
    \/ \E c \in 1..NumIntroduce, category \in Categories : add_candidate(c, category)
    \/ \E c \in 1..NumIntroduce, category \in Categories : set_category(c, category)
    \/ \E c \in 1..NumIntroduce : remove_candidate(c)
    \/ dispersy_yield_random_candidates

SpecCandidates == InitCandidates /\ [][NextCandidates]_vars

\* the table after the step holds no bootstrap address, and the assert of line 1387
\* passes
C35_NoBootstrap ==
    /\ DOMAIN candidates' \cap DOMAIN bootstrap_candidates' = {}
    /\ dispersy_yield_random_candidates => result'.kind = "return"

\* add_candidate for an address the table holds
C35_AddKnown(c, category) == c \in DOMAIN candidates /\ add_candidate(c, category)

\* create_candidate for an address the table holds
C35_CreateKnown(c) == c \in DOMAIN candidates /\ create_candidate(c)

C35_Step ==
    /\ C35_NoBootstrap
    /\ \A c \in CandidateAddrs, category \in Categories :
           C35_AddKnown(c, category) => UNCHANGED <<candidates, statistics>>
    /\ \A c \in CandidateAddrs :
           C35_CreateKnown(c) => (result'.kind = "raise" /\ UNCHANGED <<candidates, statistics>>)

\* C35: the candidate table never holds the address of a bootstrap candidate;
\* add_candidate for an address of the table keeps the candidate of the table and
\* the discovery counters, and create_candidate for an address of the table is
\* rejected (the table holds one candidate per socket address)
C35_OneCandidatePerAddress == [][C35_Step]_vars

\* create_candidate was rejected for an address whose candidate, added before, is
\* still in the table with the category it got since
C35_Witness ==
    /\ result.op = "create_candidate"
    /\ result.kind = "raise"
    /\ result.value \in DOMAIN candidates
    /\ candidates[result.value].category # "none"
    /\ statistics.total_candidates_discovered = MaxDiscovered

-----------------------------------------------------------------------------
(* C36: HardKilledCommunity.get_conversion *)

\* the versions (one byte each) and the community identifiers of the prefixes of
\* the model: dispersy version 0 is "\x00", cid 1 is the cid of the community
MaxVersion == 2
DispersyVersions == 0..1
CommunityVersions == 0..MaxVersion
Prefixes == DispersyVersions \X CommunityVersions \X (1..2)

\* a.version < b.version on the pairs of versions
VersionLess(a, b) ==
    \/ a.version[1] < b.version[1]
    \/ a.version[1] = b.version[1] /\ a.version[2] < b.version[2]

\* lines 1669-1673 with the test of line 1670 left out
WithDefault_latest(conversions, prefix) ==
    [conversions EXCEPT ![NoPrefix] = conversions[prefix]]

\* lines 1669-1673: the highest version becomes the default
WithDefault(conversions, prefix) ==
    IF NoPrefix \in DOMAIN conversions
    THEN IF VersionLess(conversions[NoPrefix], conversions[prefix])
         THEN [conversions EXCEPT ![NoPrefix] = conversions[prefix]]
         ELSE conversions
    ELSE [k \in DOMAIN conversions \cup {NoPrefix} |->
             IF k = NoPrefix THEN conversions[prefix] ELSE conversions[k]]

\* line 1663: self._conversions[prefix] = BinaryConversion(self, prefix[1])
Remembered(prefix) ==
    [k \in DOMAIN _conversions \cup {prefix} |->
        IF k = prefix THEN BinaryConversion(prefix[2]) ELSE _conversions[k]]

\* HardKilledCommunity.get_conversion(prefix), lines 1657-1675
get_conversion(prefix) ==
    /\ classification = "HardKilledCommunity"
    /\ IF prefix \in DOMAIN _conversions
       THEN /\ result' = [op |-> "get_conversion", prefix |-> prefix, kind |-> "return",
                          exc |-> "", value |-> _conversions[prefix]]
            /\ UNCHANGED _conversions
       ELSE IF prefix[1] = 0
            THEN /\ _conversions' = WithDefault(Remembered(prefix), prefix)
                 /\ result' = [op |-> "get_conversion", prefix |-> prefix,
                               kind |-> "return", exc |-> "",
                               value |-> _conversions'[prefix]]
            ELSE /\ result' = [op |-> "get_conversion", prefix |-> prefix,
                               kind |-> "raise", exc |-> "KeyError", value |-> NoneValue]
                 /\ UNCHANGED _conversions
    /\ UNCHANGED <<timeVars, clockVars, candidates, configVars, syncVars, classification,
                   attached, database, _master_member, _pending_callbacks, callback,
                   _destroy_community_packet, outbox, _timeline, _walked_candidates,
                   _stumbled_candidates, _walk_candidates, _bootstrap_candidates,
                   bootstrap_candidates, statistics>>

\* a hard-killed community without a stored destroy packet, whose default
\* conversion has any of the versions
InitConversions ==
    \E dv \in DispersyVersions, cv \in CommunityVersions :
        /\ InitAttributes({}, {}, Capacity, "largest", <<>>, HistoryOff)
        /\ InitObject("HardKilledCommunity", EmptyPacket, <<Conversion(dv, cv)>>)

NextConversions == \E prefix \in Prefixes \cup {NoPrefix} : get_conversion(prefix)

SpecConversions == InitConversions /\ [][NextConversions]_vars

\* a call of get_conversion with a prefix the community has no conversion for
C36_Unknown(prefix) == prefix \notin DOMAIN _conversions /\ get_conversion(prefix)

C36_Step ==
    \A prefix \in Prefixes :
        /\ (C36_Unknown(prefix) /\ prefix[1] = 0) =>
               /\ result'.kind = "return"
               /\ result'.value = BinaryConversion(prefix[2])
               /\ _conversions'[prefix] = result'.value
               /\ \A k \in DOMAIN _conversions \ {NoPrefix} : _conversions'[k] = _conversions[k]
        /\ (C36_Unknown(prefix) /\ prefix[1] # 0) =>
               /\ result'.kind = "raise"
               /\ result'.exc = "KeyError"
               /\ UNCHANGED _conversions

\* the default conversion is one of the conversions and none has a higher version
C36_DefaultHighest ==
    /\ \E k \in DOMAIN _conversions \ {NoPrefix} : _conversions[k] = _conversions[NoPrefix]
    /\ \A k \in DOMAIN _conversions : ~VersionLess(_conversions[NoPrefix], _conversions[k])

\* C36: HardKilledCommunity.get_conversion creates and remembers a BinaryConversion
\* for every unknown prefix of dispersy version 0, raises KeyError and leaves the
\* conversions as they are for every other unknown prefix, and after every call the
\* default conversion has the highest version of the conversions of the community
C36_ConversionsOnDemand == [][C36_Step /\ C36_DefaultHighest']_vars

\* a conversion created on demand became the default, then one of a lower version
\* was created and a prefix of another dispersy version was refused
C36_Witness ==
    /\ result.op = "get_conversion"
    /\ result.kind = "raise"
    /\ _conversions[NoPrefix] = BinaryConversion(MaxVersion)
    /\ \E k \in DOMAIN _conversions \ {NoPrefix} :
           k[1] = 0 /\ k[2] < MaxVersion /\ _conversions[k] = BinaryConversion(k[2])
    /\ Cardinality(DOMAIN _conversions) > 3

-----------------------------------------------------------------------------
(* The payloads of payload.py *)

\* the permissions the assert of payload.py line 44 (and 75) lets pass
PayloadPermissions == {"permit", "authorize", "revoke"}

\* payload.py lines 39-44 on one triplet (member, message, permission) of the model,
\* whose member and message are a Member and a Message
ValidTriplet(triplet) == triplet[3] \in PayloadPermissions

-----------------------------------------------------------------------------
(* C37: the triplets create_community passes on *)

\* C37: every triplet create_community passes to create_dispersy_authorize passes
\* the asserts of AuthorizePayload.Implementation: its permission is permit,
\* authorize or revoke
C37_TripletsAccepted ==
    result.op = "create_community" =>
        \A i \in 1..Len(result.authorize) :
            \A triplet \in result.authorize[i].permission_triplets : ValidTriplet(triplet)

-----------------------------------------------------------------------------
(* Specification of the payloads: constructors and footprints *)

\* the triplets of the model: members 1 and 2, one message, the three permissions
\* and undo
PayloadTriplets == (1..2) \X {"full-sync-text"} \X (PayloadPermissions \cup {"undo"})

\* the lists of triplets the constructors are called with
MaxTriplets == 2
TripletLists == UNION { [1..n -> PayloadTriplets] : n \in 0..MaxTriplets }

\* lines 35-46 and 65-76: the asserts on the list
ValidTriplets(triplets) ==
    \A i \in 1..Len(triplets) : ValidTriplet(triplets[i])

\* what a constructor or a method of a payload did
PayloadResult(called, with, outcome, exception, returned) ==
    [kind |-> outcome, op |-> called, value |-> returned, exc |-> exception, input |-> with]

\* AuthorizePayload.Implementation(meta, triplets).permission_triplets,
\* payload.py lines 27-50
AuthorizePayload(triplets) ==
    IF ~ValidTriplets(triplets)
    THEN PayloadResult("AuthorizePayload", triplets, "raise", "AssertionError", <<>>)
    ELSE PayloadResult("AuthorizePayload", triplets, "return", "", triplets)

\* RevokePayload.Implementation(meta, triplets).permission_triplets,
\* payload.py lines 58-81: line 76 calls super(AuthorizePayload.Implementation, self)
\* on an object that is no instance of AuthorizePayload.Implementation, which
\* raises TypeError before self._permission_triplets is assigned
RevokePayload(triplets) ==
    IF ~ValidTriplets(triplets)
    THEN PayloadResult("RevokePayload", triplets, "raise", "AssertionError", <<>>)
    ELSE PayloadResult("RevokePayload", triplets, "raise", "TypeError", <<>>)

\* a call on a payload changes nothing of the community
Payload(outcome) ==
    /\ result' = outcome
    /\ UNCHANGED <<timeVars, clockVars, candidates, configVars, syncVars, lifeVars>>

\* the bytes of the identifiers of the model: "0", ":", "a" and "z"
IdentifierBytes == {48, 58, 97, 122}

\* the length the asserts ask of an identifier (payload.py lines 156, 170, 187, 206, 227)
IdentifierLength == 20

\* the identifiers (str) of the model: 19 or 20 bytes, all "0" behind the first two
Identifiers ==
    { [i \in 1..n |-> IF i = 1 THEN a ELSE IF i = 2 THEN b ELSE 48] :
        a \in IdentifierBytes, b \in IdentifierBytes,
        n \in {IdentifierLength - 1, IdentifierLength} }

Chr(byte) ==
    CASE byte = 48 -> "0" [] byte = 58 -> ":" [] byte = 97 -> "a" [] byte = 122 -> "z"

HexDigits == <<"0", "1", "2", "3", "4", "5", "6", "7", "8", "9", "a", "b", "c", "d", "e", "f">>

RECURSIVE Str(_)
\* the str whose bytes are `bytes'
Str(bytes) == IF bytes = <<>> THEN "" ELSE Chr(Head(bytes)) \o Str(Tail(bytes))

RECURSIVE Hex(_)
\* bytes.encode("HEX")
Hex(bytes) ==
    IF bytes = <<>> THEN ""
    ELSE HexDigits[(Head(bytes) \div 16) + 1] \o HexDigits[(Head(bytes) % 16) + 1]
         \o Hex(Tail(bytes))

\* the payloads whose footprint holds an identifier
FootprintPayloads ==
    {"RoutingResponsePayload", "SignatureResponsePayload", "IdentityRequestPayload"}

\* meta.generate_footprint(identifier), payload.py lines 168-171, 204-207, 239-240
GenerateFootprint(payload, identifier) ==
    IF payload = "IdentityRequestPayload"
    THEN PayloadResult("generate_footprint", <<payload, identifier>>, "return", "",
                       "IdentityPayload" \o Str(identifier))
    ELSE IF Len(identifier) # IdentifierLength
    THEN PayloadResult("generate_footprint", <<payload, identifier>>, "raise",
                       "AssertionError", "")
    ELSE PayloadResult("generate_footprint", <<payload, identifier>>, "return", "",
                       payload \o ":" \o Hex(identifier))

\* Implementation(meta, identifier, ...).footprint with valid other arguments,
\* payload.py lines 152-166, 183-202, 223-237
Footprint(payload, identifier) ==
    IF Len(identifier) # IdentifierLength
    THEN PayloadResult("footprint", <<payload, identifier>>, "raise", "AssertionError", "")
    ELSE IF payload = "IdentityRequestPayload"
    THEN PayloadResult("footprint", <<payload, identifier>>, "return", "",
                       "IdentityPayload:" \o Str(identifier))
    ELSE PayloadResult("footprint", <<payload, identifier>>, "return", "",
                       payload \o ":" \o Hex(identifier))

RECURSIVE Xor(_, _)
\* a ^ b of Python on naturals
Xor(a, b) ==
    IF a = 0 THEN b
    ELSE IF b = 0 THEN a
    ELSE (((a % 2) + (b % 2)) % 2) + (2 * Xor(a \div 2, b \div 2))

\* the clusters the constructors are called with: every int from 0 to 257
MaxCluster == 257
Clusters == 0..MaxCluster

\* `0 < cluster < 2^8', payload.py lines 290 and 322
FitsInOneByte(cluster) == 0 < cluster /\ cluster < Xor(2, 8)

\* SimilarityPayload.Implementation(meta, cluster, similarity).cluster with a
\* BloomFilter, SimilarityRequestPayload.Implementation(meta, cluster, members)
\* .cluster with a list of members; payload.py lines 273-302 and 304-335
Similarity(payload, cluster) ==
    IF FitsInOneByte(cluster)
    THEN PayloadResult(payload, cluster, "return", "", cluster)
    ELSE PayloadResult(payload, cluster, "raise", "AssertionError", 0)

SimilarityPayloads == {"SimilarityPayload", "SimilarityRequestPayload"}

InitPayload == InitTime

NextPayload ==
    \/ \E triplets \in TripletLists : Payload(AuthorizePayload(triplets))
    \/ \E triplets \in TripletLists : Payload(RevokePayload(triplets))
    \/ \E payload \in FootprintPayloads, identifier \in Identifiers :
           Payload(GenerateFootprint(payload, identifier))
    \/ \E payload \in FootprintPayloads, identifier \in Identifiers :
           Payload(Footprint(payload, identifier))
    \/ \E payload \in SimilarityPayloads, cluster \in Clusters :
           Payload(Similarity(payload, cluster))

SpecPayload == InitPayload /\ [][NextPayload]_vars

-----------------------------------------------------------------------------
(* C38: RevokePayload.Implementation *)

\* C38: RevokePayload.Implementation, like AuthorizePayload.Implementation, is
\* constructed from every list of valid triplets and its permission_triplets
\* returns the list
C38_RevokeLikeAuthorize ==
    (result.op \in {"AuthorizePayload", "RevokePayload"} /\ ValidTriplets(result.input)) =>
        /\ result.kind = "return"
        /\ result.value = result.input

\* AuthorizePayload.Implementation is constructed from every list of valid triplets
\* and returns it
C38_AuthorizeReturnsList ==
    (result.op = "AuthorizePayload" /\ ValidTriplets(result.input)) =>
        /\ result.kind = "return"
        /\ result.value = result.input

-----------------------------------------------------------------------------
(* C39: the footprints bound to an identifier *)

\* C39: the footprint generate_footprint makes of an identifier of 20 bytes is the
\* footprint of an Implementation constructed with the identifier
C39_FootprintsMatch ==
    (result.op = "generate_footprint" /\ Len(result.input[2]) = IdentifierLength) =>
        /\ result.kind = "return"
        /\ Footprint(result.input[1], result.input[2]).kind = "return"
        /\ result.value = Footprint(result.input[1], result.input[2]).value

\* the same, but for IdentityRequestPayload
C39_HexFootprintsMatch ==
    (/\ result.op = "generate_footprint"
     /\ result.input[1] # "IdentityRequestPayload"
     /\ Len(result.input[2]) = IdentifierLength) =>
        /\ result.kind = "return"
        /\ result.value = Footprint(result.input[1], result.input[2]).value

-----------------------------------------------------------------------------
(* C40: the cluster of the similarity payloads *)

\* C40: SimilarityPayload and SimilarityRequestPayload accept the clusters 1 to 255
\* and no other
C40_ClusterFitsInOneByte ==
    result.op \in SimilarityPayloads => (result.kind = "return" <=> result.input \in 1..255)

\* they accept the clusters 1 to 9 and no other
C40_ClusterBelowTen ==
    result.op \in SimilarityPayloads => (result.kind = "return" <=> result.input \in 1..9)

=============================================================================
